---------------------------- MODULE Spec2Model ----------------------------
(***************************************************************************)
(* A model of squirrel-json: the structural scanner (src/de), its          *)
(* Document facade and the string unescaper (src/unescape.rs).             *)
(*                                                                         *)
(* Bytes are the integers 0..255.  Offsets into the input and indexes into *)
(* the offset table are 0-based, as in the source; At and Elem translate   *)
(* them to TLA+'s 1-based sequences.                                       *)
(***************************************************************************)
EXTENDS Integers, Sequences, FiniteSets, TLC

(***************************************************************************)
(* Bounds of the model.                                                    *)
(***************************************************************************)
\* the longest body (bytes between the outer braces) enumerated exhaustively
MaxLen == 3
\* the longest input enumerated exhaustively for the preflight
MaxPre == 3
\* the most scalar elements in the generated wide arrays
MaxWide == 15
\* the deepest generated nest of arrays
MaxNest == 6
\* stand-in for u16::MAX (65_535): the width of table indexes, scaled down
U16_MAX == 15
\* stand-in for Simd::BLOCK_SIZE (32 on AVX2, 8 on NEON), scaled down
BLOCK_SIZE == 2
\* stand-in for Stack::MAX_DEPTH (96), scaled down
MAX_DEPTH == 3

U16Mod == U16_MAX + 1
VECTORIZATION_THRESHOLD == BLOCK_SIZE * 5

(***************************************************************************)
(* Bytes the code names.                                                   *)
(***************************************************************************)
QUOTE == 34
COLON == 58
COMMA == 44
BSLASH == 92
LBRACE == 123
RBRACE == 125
LBRACKET == 91
RBRACKET == 93
MINUS == 45
CH_n == 110
CH_t == 116
CH_f == 102
SPACE == 32
NEWLINE == 10
Digits == 48..57

\* Option::None of an Option<u16>
NoIndex == -1

Min(a, b) == IF a < b THEN a ELSE b

At(bytes, k) == bytes[k + 1]
InBounds(bytes, k) == k >= 0 /\ k < Len(bytes)

(***************************************************************************)
(* Offset records (de/mod.rs).                                             *)
(***************************************************************************)
Parts == {"None", "Key", "Value", "Elem"}

OffsetKind(tag, offset, len, flag, n) ==
    [tag |-> tag, offset |-> offset, len |-> len, flag |-> flag, n |-> n]
Str(offset, len, escaped) == OffsetKind("Str", offset, len, escaped, 0)
Num(offset, len) == OffsetKind("Num", offset, len, FALSE, 0)
Bool(b) == OffsetKind("Bool", 0, 0, b, 0)
Null == OffsetKind("Null", 0, 0, FALSE, 0)
Map(n) == OffsetKind("Map", 0, 0, FALSE, n)
Arr(n) == OffsetKind("Arr", 0, 0, FALSE, n)

Offset(kind, position, next) == [kind |-> kind, position |-> position, next |-> next]

Offsets_attach(elements) == [elements |-> elements, err |-> FALSE, root_size_hint |-> 0]

ActivePrimitive_default == [kind |-> "None", input_offset |-> 0, escaped |-> FALSE]

NoPrev == [p \in Parts |-> NoIndex]

ActiveMapArr(start_from_offset, parts) ==
    [active_primitive |-> ActivePrimitive_default,
     start_from_offset |-> start_from_offset,
     len |-> 0,
     parts |-> parts,
     prev_part_offsets |-> NoPrev]

Stack_attach(bottom) ==
    [active_map_arr |-> ActiveMapArr(0, <<"Key", "Value">>), bottom |-> bottom]

Simd_new == [interest |-> {}, quote |-> {}, active_index |-> "Interest"]

Scan_attach(stack, start, end) ==
    [input_offset |-> start,
     input_len |-> end,
     escape |-> FALSE,
     error |-> FALSE,
     stack |-> Stack_attach(stack),
     simd |-> Simd_new]

\* a Vec keeps the allocation it has: its capacity is recorded next to its
\* elements. Vec::new() allocates nothing; a push into a full Vec grows it
\* to twice its capacity, to 4 elements at least
Capacity(offsets_capacity, stack_capacity) ==
    [offsets |-> offsets_capacity, stack |-> stack_capacity]
Vec_new_capacity == 0
Vec_grown(capacity, len) ==
    IF len <= capacity THEN capacity
    ELSE LET doubled == IF 2 * capacity > len THEN 2 * capacity ELSE len IN
         IF doubled > 4 THEN doubled ELSE 4

\* DetachedDocument: the two vectors, cleared, and the capacity of each
DetachedDocument(offsets, stack, capacity) ==
    [offsets |-> offsets, stack |-> stack,
     offsets_capacity |-> capacity.offsets, stack_capacity |-> capacity.stack]

DEFAULT_OFFSETS_CAPACITY == 48
DEFAULT_STACK_CAPACITY == 6
DetachedDocument_default ==
    DetachedDocument(<<>>, <<>>, Capacity(DEFAULT_OFFSETS_CAPACITY, DEFAULT_STACK_CAPACITY))

(***************************************************************************)
(* The SIMD index pair (de/simd.rs).  A mask is the set of its set bits.   *)
(***************************************************************************)
\* i32::trailing_zeros of a mask: 32 when the mask is zero
trailing_zeros(mask) ==
    IF mask = {} THEN 32 ELSE CHOOSE b \in mask : \A c \in mask : b <= c

\* mask & ((!0i64 << n) as i32)
shift_from(mask, n) == {b \in mask : b >= n}

\* pre_index_quote leaving the interest index as it is
pre_index_quote_keeps_interest(simd) == simd

pre_index_quote(simd) ==
    [simd EXCEPT !.interest = shift_from(@, trailing_zeros(simd.quote))]

pre_index_interest(simd) == simd

set_index_quote(scan) ==
    [scan EXCEPT !.simd = pre_index_quote([@ EXCEPT !.active_index = "Quote"])]

shift_index_quote(scan) ==
    [scan EXCEPT !.simd = pre_index_quote(@)]

set_index_interest(scan) ==
    [scan EXCEPT !.simd = pre_index_interest([@ EXCEPT !.active_index = "Interest"])]

(***************************************************************************)
(* ScanFnInput and the operations on it (de/interest.rs).  fault records   *)
(* the first unchecked operation that left its bounds.                     *)
(***************************************************************************)
ScanFnInput(input, scan, offsets, curr_offset, curr) ==
    [input |-> input, curr_offset |-> curr_offset, curr |-> curr,
     scan |-> scan, offsets |-> offsets, fault |-> "none", peeked |-> NoIndex]

Fault(i, f) == IF i.fault = "none" THEN [i EXCEPT !.fault = f] ELSE i

Active(i) == i.scan.stack.active_map_arr
Elements(i) == i.offsets.elements

\* the lookahead reading the second byte after the one being handled
Peek_second_byte(i) ==
    LET k == i.curr_offset + 2 IN
    IF InBounds(i.input, k)
    THEN [i EXCEPT !.curr_offset = k, !.curr = At(i.input, k), !.peeked = k]
    ELSE Fault([i EXCEPT !.curr_offset = k, !.curr = 0, !.peeked = k], "oob_read")

\* i.curr_offset += 1; i.curr = *get_unchecked!(i.input, i.curr_offset)
Peek(i) ==
    LET k == i.curr_offset + 1 IN
    IF InBounds(i.input, k)
    THEN [i EXCEPT !.curr_offset = k, !.curr = At(i.input, k), !.peeked = k]
    ELSE Fault([i EXCEPT !.curr_offset = k, !.curr = 0, !.peeked = k], "oob_read")

err(i) ==
    [i EXCEPT !.scan.error = TRUE,
              !.scan.stack.active_map_arr.parts = <<"None", "None">>,
              !.scan.stack.active_map_arr.prev_part_offsets = NoPrev]

\* ActiveMapArr::part: the position of the next record and the index of the
\* previous record at that position
part_position(frame) == frame.parts[(frame.len % 2) + 1]
part_prev(frame) == frame.prev_part_offsets[part_position(frame)]
part_frame(frame, curr_offset) ==
    [frame EXCEPT !.prev_part_offsets[part_position(frame)] = curr_offset,
                  !.len = (frame.len + 1) % U16Mod]

\* push linking the previous sibling to the index after the new record
push_links_prev_past_new(i, kind) ==
    LET position_offset == Len(Elements(i)) % U16Mod
        frame == Active(i)
        position == part_position(frame)
        prev == part_prev(frame)
        i1 == IF frame.len + 1 > U16_MAX THEN Fault(i, "add_overflow") ELSE i
        i2 == [i1 EXCEPT !.scan.stack.active_map_arr = part_frame(frame, position_offset)]
        i3 == IF prev = NoIndex THEN i2
              ELSE IF prev < Len(Elements(i))
                   THEN [i2 EXCEPT !.offsets.elements[prev + 1].next = position_offset + 1]
                   ELSE Fault(i2, "oob_write")
    IN [i3 EXCEPT !.offsets.elements = Append(@, Offset(kind, position, NoIndex))]

\* push linking the previous sibling to itself instead of the new record
push_links_prev_to_itself(i, kind) ==
    LET position_offset == Len(Elements(i)) % U16Mod
        frame == Active(i)
        position == part_position(frame)
        prev == part_prev(frame)
        i1 == IF frame.len + 1 > U16_MAX THEN Fault(i, "add_overflow") ELSE i
        i2 == [i1 EXCEPT !.scan.stack.active_map_arr = part_frame(frame, position_offset)]
        i3 == IF prev = NoIndex THEN i2
              ELSE IF prev < Len(Elements(i))
                   THEN [i2 EXCEPT !.offsets.elements[prev + 1].next = prev]
                   ELSE Fault(i2, "oob_write")
    IN [i3 EXCEPT !.offsets.elements = Append(@, Offset(kind, position, NoIndex))]

push(i, kind) ==
    LET position_offset == Len(Elements(i)) % U16Mod
        frame == Active(i)
        position == part_position(frame)
        prev == part_prev(frame)
        i1 == IF frame.len + 1 > U16_MAX THEN Fault(i, "add_overflow") ELSE i
        i2 == [i1 EXCEPT !.scan.stack.active_map_arr = part_frame(frame, position_offset)]
        i3 == IF prev = NoIndex THEN i2
              ELSE IF prev < Len(Elements(i))
                   THEN [i2 EXCEPT !.offsets.elements[prev + 1].next = position_offset]
                   ELSE Fault(i2, "oob_write")
    IN [i3 EXCEPT !.offsets.elements = Append(@, Offset(kind, position, NoIndex))]

\* begin handing the parent's last index per position on to the new frame
begin_inherits_prev(i, parts) ==
    IF Len(i.scan.stack.bottom) > MAX_DEPTH
    THEN err(i)
    ELSE LET start_from_offset == Len(Elements(i)) % U16Mod IN
         [i EXCEPT !.scan.stack.bottom = Append(@, Active(i)),
                   !.scan.stack.active_map_arr =
                       [ActiveMapArr(start_from_offset, parts)
                           EXCEPT !.prev_part_offsets = Active(i).prev_part_offsets]]

begin(i, parts) ==
    IF Len(i.scan.stack.bottom) > MAX_DEPTH
    THEN err(i)
    ELSE LET start_from_offset == Len(Elements(i)) % U16Mod IN
         [i EXCEPT !.scan.stack.bottom = Append(@, Active(i)),
                   !.scan.stack.active_map_arr = ActiveMapArr(start_from_offset, parts)]

map_begin(i) == begin(i, <<"Key", "Value">>)
arr_begin(i) == begin(i, <<"Elem", "Elem">>)

\* map_end counting the records of the map instead of its pairs
map_end_kind_counts_records(len) == Map(len)

\* the closure map_end hands to end: the map len is the number of entries
map_end_kind(len) == Map(len \div 2)

\* arr_end counting the array's own record with its elements
arr_end_kind_counts_itself(len) == Arr(len + 1)

\* the closure arr_end hands to end: the array len is the number of elements
arr_end_kind(len) == Arr(len)

\* end leaving the scan unpoisoned when no frame is open
end_ignores_empty_stack(i, closer) ==
    LET bottom == i.scan.stack.bottom IN
    IF bottom # <<>>
    THEN LET last == bottom[Len(bottom)]
             start == Active(i).start_from_offset - 1
             len == Active(i).len
             kind == IF closer = "map" THEN map_end_kind(len) ELSE arr_end_kind(len)
             i1 == [i EXCEPT !.scan.stack.bottom = SubSeq(bottom, 1, Len(bottom) - 1),
                             !.scan.stack.active_map_arr = last]
         IN IF start >= 0 /\ start < Len(Elements(i))
            THEN [i1 EXCEPT !.offsets.elements[start + 1].kind = kind]
            ELSE Fault(i1, "oob_write")
    ELSE i

\* ScanFnInput::end: pop the frame and patch the container's record, or
\* poison the scan when no frame is open
end(i, closer) ==
    LET bottom == i.scan.stack.bottom IN
    IF bottom # <<>>
    THEN LET last == bottom[Len(bottom)]
             start == Active(i).start_from_offset - 1
             len == Active(i).len
             kind == IF closer = "map" THEN map_end_kind(len) ELSE arr_end_kind(len)
             i1 == [i EXCEPT !.scan.stack.bottom = SubSeq(bottom, 1, Len(bottom) - 1),
                             !.scan.stack.active_map_arr = last]
         IN IF start >= 0 /\ start < Len(Elements(i))
            THEN [i1 EXCEPT !.offsets.elements[start + 1].kind = kind]
            ELSE Fault(i1, "oob_write")
    ELSE err(i)

map_end(i) == end(i, "map")
arr_end(i) == end(i, "arr")

interest_unreachable(i) == [i EXCEPT !.scan.error = TRUE]

interest_none(i) == i

\* interest_unescape_now forgetting to mark the string as escaped
interest_unescape_now_unmarked(i) ==
    LET s == shift_index_quote(i.scan) IN
    [i EXCEPT !.scan = [s EXCEPT !.escape = FALSE]]

interest_unescape_now(i) ==
    LET s == shift_index_quote(i.scan) IN
    [i EXCEPT !.scan = [s EXCEPT !.stack.active_map_arr.active_primitive.escaped = TRUE,
                                 !.escape = FALSE]]

interest_unescape_later(i) == i

\* interest_str recording the end of the string where its length belongs
interest_str_end_as_len(i) ==
    IF i.scan.escape
    THEN interest_unescape_now([i EXCEPT !.scan.escape = FALSE])
    ELSE LET prim == Active(i).active_primitive
             taken == [i EXCEPT !.scan.stack.active_map_arr.active_primitive =
                                    ActivePrimitive_default]
         IN IF prim.kind = "Str"
            THEN push([taken EXCEPT !.scan = set_index_interest(@)],
                      Str(prim.input_offset, i.curr_offset, prim.escaped))
            ELSE [i EXCEPT !.scan = [set_index_quote(@) EXCEPT
                     !.stack.active_map_arr.active_primitive =
                         [kind |-> "Str", input_offset |-> i.curr_offset + 1,
                          escaped |-> FALSE]]]

interest_str(i) ==
    IF i.scan.escape
    THEN interest_unescape_now([i EXCEPT !.scan.escape = FALSE])
    ELSE LET prim == Active(i).active_primitive
             taken == [i EXCEPT !.scan.stack.active_map_arr.active_primitive =
                                    ActivePrimitive_default]
         IN IF prim.kind = "Str"
            THEN push([taken EXCEPT !.scan = set_index_interest(@)],
                      Str(prim.input_offset, i.curr_offset - prim.input_offset, prim.escaped))
            ELSE [i EXCEPT !.scan = [set_index_quote(@) EXCEPT
                     !.stack.active_map_arr.active_primitive =
                         [kind |-> "Str", input_offset |-> i.curr_offset + 1,
                          escaped |-> FALSE]]]

\* interest_escape setting the escape bit on every backslash instead of
\* toggling it
interest_escape_sets_bit(i) ==
    LET i1 == [i EXCEPT !.scan.escape = TRUE]
        i2 == Peek(i1)
    IN IF i2.curr \in {QUOTE, BSLASH}
       THEN interest_unescape_later(i2)
       ELSE interest_unescape_now(i2)

\* interest_escape leaving the string unmarked when the byte after the
\* backslash is neither a quote nor a backslash
interest_escape_unmarked(i) ==
    LET escaped == i.scan.escape
        i1 == [i EXCEPT !.scan.escape = ~escaped]
    IN IF escaped
       THEN interest_unescape_now(i1)
       ELSE LET i2 == Peek(i1) IN
            IF i2.curr \in {QUOTE, BSLASH}
            THEN interest_unescape_later(i2)
            ELSE interest_unescape_now_unmarked(i2)

\* interest_escape: a backslash toggles the escape bit; the byte after it is
\* peeked and, unless it is a quote or a backslash, consumed at once
interest_escape(i) ==
    LET escaped == i.scan.escape
        i1 == [i EXCEPT !.scan.escape = ~escaped]
    IN IF escaped
       THEN interest_unescape_now(i1)
       ELSE LET i2 == Peek(i1) IN
            IF i2.curr \in {QUOTE, BSLASH}
            THEN interest_unescape_later(i2)
            ELSE interest_unescape_now(i2)

interest_num_begin(i) ==
    [i EXCEPT !.scan.stack.active_map_arr.active_primitive =
                  [kind |-> "Num", input_offset |-> i.curr_offset, escaped |-> FALSE]]

\* interest_num_end leaving the last byte of the number out of its slice
interest_num_end_drops_last_byte(i) ==
    LET prim == Active(i).active_primitive
        taken == [i EXCEPT !.scan.stack.active_map_arr.active_primitive =
                               ActivePrimitive_default]
    IN IF prim.kind = "Num"
       THEN push(taken, Num(prim.input_offset, i.curr_offset - prim.input_offset - 1))
       ELSE taken

interest_num_end(i) ==
    LET prim == Active(i).active_primitive
        taken == [i EXCEPT !.scan.stack.active_map_arr.active_primitive =
                               ActivePrimitive_default]
    IN IF prim.kind = "Num"
       THEN push(taken, Num(prim.input_offset, i.curr_offset - prim.input_offset))
       ELSE taken

interest_atom(i, kind) ==
    push([i EXCEPT !.scan.stack.active_map_arr.active_primitive.kind = "Atom"], kind)

interest_null(i) == interest_atom(i, Null)
interest_true(i) == interest_atom(i, Bool(TRUE))
interest_false(i) == interest_atom(i, Bool(FALSE))

\* match_primitive letting any other byte pass as the start of a value
match_primitive_lenient(i) ==
    CASE i.curr \in {QUOTE, LBRACE, LBRACKET, RBRACE, RBRACKET} -> interest_none(i)
      [] i.curr \in Digits \cup {MINUS} -> interest_num_begin(i)
      [] i.curr = CH_n -> interest_null(i)
      [] i.curr = CH_t -> interest_true(i)
      [] i.curr = CH_f -> interest_false(i)
      [] OTHER -> interest_none(i)

match_primitive(i) ==
    CASE i.curr \in {QUOTE, LBRACE, LBRACKET, RBRACE, RBRACKET} -> interest_none(i)
      [] i.curr \in Digits \cup {MINUS} -> interest_num_begin(i)
      [] i.curr = CH_n -> interest_null(i)
      [] i.curr = CH_t -> interest_true(i)
      [] i.curr = CH_f -> interest_false(i)
      [] OTHER -> interest_unreachable(i)

interest_map_begin(i) == map_begin(push(i, Map(0)))

interest_key_elem_begin(i) == match_primitive(Peek(i))

interest_arr_begin(i) == interest_key_elem_begin(arr_begin(push(i, Arr(0))))

interest_key_end(i) == match_primitive(Peek(i))

\* interest_value_elem_end starting afresh after an error
interest_value_elem_end_clears_error(i) ==
    [match_primitive(Peek(interest_num_end(i))) EXCEPT !.scan.error = FALSE]

interest_value_elem_end(i) == match_primitive(Peek(interest_num_end(i)))

interest_map_end(i) == map_end(interest_num_end(i))

interest_arr_end(i) == arr_end(interest_num_end(i))

match_interest(i) ==
    CASE i.curr = QUOTE -> interest_str(i)
      [] i.curr = COLON -> interest_key_end(i)
      [] i.curr = COMMA -> interest_value_elem_end(i)
      [] i.curr = BSLASH -> interest_escape(i)
      [] i.curr = LBRACE -> interest_map_begin(i)
      [] i.curr = LBRACKET -> interest_arr_begin(i)
      [] i.curr = RBRACE -> interest_map_end(i)
      [] i.curr = RBRACKET -> interest_arr_end(i)
      [] OTHER -> interest_unreachable(i)

(***************************************************************************)
(* One iteration of the byte loops of fallback::scan_block: the byte at    *)
(* the cursor is dispatched by the active primitive, then the cursor moves *)
(* one byte on.                                                            *)
(***************************************************************************)
scan_block_dispatch(i) ==
    LET kind == Active(i).active_primitive.kind IN
    CASE kind = "None" -> match_interest(i)
      [] kind = "Str" ->
            (CASE i.curr = BSLASH -> interest_escape(i)
               [] i.curr = QUOTE -> interest_str(i)
               [] OTHER -> i)
      [] OTHER ->
            (CASE i.curr = COMMA -> interest_value_elem_end(i)
               [] i.curr = RBRACE -> interest_map_end(i)
               [] i.curr = RBRACKET -> interest_arr_end(i)
               [] OTHER -> i)

scan_block_byte(input, scan, offsets) ==
    LET k == scan.input_offset
        i0 == ScanFnInput(input, scan, offsets, k, IF InBounds(input, k) THEN At(input, k) ELSE 0)
        i1 == scan_block_dispatch(IF InBounds(input, k) THEN i0 ELSE Fault(i0, "oob_read"))
    IN [i1 EXCEPT !.scan.input_offset = @ + 1]

\* fallback::scan_block: the byte loop run up to read_to
RECURSIVE scan_block(_, _, _, _, _)
scan_block(input, scan, offsets, read_to, fault) ==
    IF scan.input_offset < read_to
    THEN LET i == scan_block_byte(input, scan, offsets) IN
         scan_block(input, i.scan, i.offsets, read_to,
                    IF fault = "none" THEN i.fault ELSE fault)
    ELSE [scan |-> scan, offsets |-> offsets, fault |-> fault]

(***************************************************************************)
(* Preflight (de/mod.rs, scan_begin): str::from_utf8 and str::trim_end.    *)
(***************************************************************************)
IsCont(bytes, k) == InBounds(bytes, k) /\ At(bytes, k) \in 128..191
InRange(bytes, k, lo, hi) == InBounds(bytes, k) /\ At(bytes, k) \in lo..hi

\* the length of the well-formed UTF-8 sequence starting at k, 0 if none does
utf8_char_width(bytes, k) ==
    LET b == At(bytes, k) IN
    CASE b < 128 -> 1
      [] b \in 194..223 -> IF IsCont(bytes, k + 1) THEN 2 ELSE 0
      [] b = 224 -> IF InRange(bytes, k + 1, 160, 191) /\ IsCont(bytes, k + 2) THEN 3 ELSE 0
      [] b \in (225..236) \cup {238, 239} ->
            IF IsCont(bytes, k + 1) /\ IsCont(bytes, k + 2) THEN 3 ELSE 0
      [] b = 237 -> IF InRange(bytes, k + 1, 128, 159) /\ IsCont(bytes, k + 2) THEN 3 ELSE 0
      [] b = 240 -> IF InRange(bytes, k + 1, 144, 191) /\ IsCont(bytes, k + 2)
                       /\ IsCont(bytes, k + 3) THEN 4 ELSE 0
      [] b \in 241..243 -> IF IsCont(bytes, k + 1) /\ IsCont(bytes, k + 2)
                              /\ IsCont(bytes, k + 3) THEN 4 ELSE 0
      [] b = 244 -> IF InRange(bytes, k + 1, 128, 143) /\ IsCont(bytes, k + 2)
                       /\ IsCont(bytes, k + 3) THEN 4 ELSE 0
      [] OTHER -> 0

RECURSIVE from_utf8_at(_, _)
from_utf8_at(bytes, k) ==
    IF k >= Len(bytes) THEN TRUE
    ELSE LET w == utf8_char_width(bytes, k) IN
         IF w = 0 THEN FALSE ELSE from_utf8_at(bytes, k + w)

from_utf8(bytes) == from_utf8_at(bytes, 0)

\* the width of the White_Space character that ends bytes[0..n), 0 if none does
trailing_whitespace(bytes, n) ==
    LET b1 == IF n >= 1 THEN At(bytes, n - 1) ELSE -1
        b2 == IF n >= 2 THEN At(bytes, n - 2) ELSE -1
        b3 == IF n >= 3 THEN At(bytes, n - 3) ELSE -1
    IN CASE b1 \in (9..13) \cup {SPACE} -> 1
         [] b2 = 194 /\ b1 \in {133, 160} -> 2
         [] b3 = 225 /\ b2 = 154 /\ b1 = 128 -> 3
         [] b3 = 226 /\ b2 = 128 /\ b1 \in (128..138) \cup {168, 169, 175} -> 3
         [] b3 = 226 /\ b2 = 129 /\ b1 = 159 -> 3
         [] b3 = 227 /\ b2 = 128 /\ b1 = 128 -> 3
         [] OTHER -> 0

RECURSIVE trim_end_len(_, _)
trim_end_len(bytes, n) ==
    LET w == trailing_whitespace(bytes, n) IN
    IF w = 0 THEN n ELSE trim_end_len(bytes, n - w)

NoBounds == [ok |-> FALSE, start |-> 0, end |-> 0]

\* scan_begin without the check of the closing brace
scan_begin_unclosed(bytes) ==
    IF ~from_utf8(bytes) THEN NoBounds
    ELSE LET len == trim_end_len(bytes, Len(bytes)) IN
         IF len < 2 THEN NoBounds
         ELSE IF At(bytes, 0) # LBRACE THEN NoBounds
         ELSE [ok |-> TRUE, start |-> 1, end |-> len - 1]

scan_begin(bytes) ==
    IF ~from_utf8(bytes) THEN NoBounds
    ELSE LET len == trim_end_len(bytes, Len(bytes)) IN
         IF len < 2 THEN NoBounds
         ELSE IF At(bytes, 0) # LBRACE THEN NoBounds
         ELSE IF At(bytes, len - 1) # RBRACE THEN NoBounds
         ELSE [ok |-> TRUE, start |-> 1, end |-> len - 1]

(***************************************************************************)
(* Postflight (de/mod.rs, scan_end) and the Document it returns.           *)
(***************************************************************************)
Document(offsets, stack) == [offsets |-> offsets, detached_stack |-> stack]

Document_err ==
    Document([elements |-> <<>>, err |-> TRUE, root_size_hint |-> 0], <<>>)

NoDocument == Document([elements |-> <<>>, err |-> FALSE, root_size_hint |-> 0], <<>>)

\* scan_end_state taking an open string for a finished one
scan_end_state_open_string(input, scan, offsets) ==
    LET kind == scan.stack.active_map_arr.active_primitive.kind
        k == scan.input_offset
        i0 == ScanFnInput(input, scan, offsets, k, IF InBounds(input, k) THEN At(input, k) ELSE 0)
        i1 == CASE kind = "Num" ->
                     interest_num_end(IF InBounds(input, k) THEN i0 ELSE Fault(i0, "oob_read"))
                [] OTHER -> i0
        i2 == IF Len(i1.offsets.elements) > U16_MAX
              THEN [i1 EXCEPT !.scan.error = TRUE] ELSE i1
    IN [i2 EXCEPT !.offsets.root_size_hint = i2.scan.stack.active_map_arr.len \div 2]

\* scan_end_state leaving a number that runs to the end of the bounds
\* unfinished
scan_end_state_drops_number(input, scan, offsets) ==
    LET kind == scan.stack.active_map_arr.active_primitive.kind
        k == scan.input_offset
        i0 == ScanFnInput(input, scan, offsets, k, IF InBounds(input, k) THEN At(input, k) ELSE 0)
        i1 == CASE kind = "Str" -> [i0 EXCEPT !.scan.error = TRUE]
                [] OTHER -> i0
        i2 == IF Len(i1.offsets.elements) > U16_MAX
              THEN [i1 EXCEPT !.scan.error = TRUE] ELSE i1
    IN [i2 EXCEPT !.offsets.root_size_hint = i2.scan.stack.active_map_arr.len \div 2]

\* the scanner state and table after the match on the active primitive and
\* the size check
scan_end_state(input, scan, offsets) ==
    LET kind == scan.stack.active_map_arr.active_primitive.kind
        k == scan.input_offset
        i0 == ScanFnInput(input, scan, offsets, k, IF InBounds(input, k) THEN At(input, k) ELSE 0)
        i1 == CASE kind = "Num" ->
                     interest_num_end(IF InBounds(input, k) THEN i0 ELSE Fault(i0, "oob_read"))
                [] kind = "Str" -> [i0 EXCEPT !.scan.error = TRUE]
                [] OTHER -> i0
        i2 == IF Len(i1.offsets.elements) > U16_MAX
              THEN [i1 EXCEPT !.scan.error = TRUE] ELSE i1
    IN [i2 EXCEPT !.offsets.root_size_hint = i2.scan.stack.active_map_arr.len \div 2]

\* scan_end returning the table it built with the error flag set
scan_end_keeps_table(input, scan, offsets) ==
    LET i == scan_end_state(input, scan, offsets) IN
    IF ~i.scan.error THEN Document(i.offsets, i.scan.stack.bottom)
    ELSE Document([i.offsets EXCEPT !.err = TRUE], <<>>)

scan_end(input, scan, offsets) ==
    LET i == scan_end_state(input, scan, offsets) IN
    IF ~i.scan.error THEN Document(i.offsets, i.scan.stack.bottom) ELSE Document_err

\* the capacities of the vectors of Document::err, both Vec::new()
Document_err_capacity == Capacity(Vec_new_capacity, Vec_new_capacity)

\* detach handing the frames of the Document on with its stack vector
detach_keeps_frames(d, capacity) ==
    DetachedDocument(<<>>, d.detached_stack, capacity)

\* Document::detach: both vectors are cleared and keep their allocation
detach(d, capacity) == DetachedDocument(<<>>, <<>>, capacity)

\* Document::into_offsets
into_offsets(d) == d.offsets

\* to_document_unchecked building the table anew from the records
to_document_unchecked_attach(o) == Document(Offsets_attach(o.elements), <<>>)

\* Offsets::to_document_unchecked: a clone of the offsets and a new stack
to_document_unchecked(o) == Document(o, <<>>)

\* scan_fallback: the scanner state and table when the scalar-only scan of
\* an accepted input ends, and the Document it returns
scan_fallback_state(input, detached) ==
    LET bounds == scan_begin(input)
        s == Scan_attach(detached.stack, bounds.start, bounds.end)
        r == scan_block(input, s, Offsets_attach(detached.offsets), s.input_len, "none")
        i == scan_end_state(input, r.scan, r.offsets)
    IN [scan |-> i.scan, offsets |-> i.offsets,
        fault |-> IF r.fault = "none" THEN i.fault ELSE r.fault]

scan_fallback(input, detached) ==
    IF ~scan_begin(input).ok THEN Document_err
    ELSE LET r == scan_fallback_state(input, detached) IN
         IF ~r.scan.error THEN Document(r.offsets, r.scan.stack.bottom) ELSE Document_err

(***************************************************************************)
(* Block classification of the vector scan (de/simd.rs).                   *)
(***************************************************************************)
RECURSIVE BitAnd(_, _)
BitAnd(a, b) ==
    IF a = 0 \/ b = 0 THEN 0
    ELSE (a % 2) * (b % 2) + 2 * BitAnd(a \div 2, b \div 2)

GROUP_C == 1
GROUP_B == 2
GROUP_N == 4
GROUP_E == 8
GROUP_Q == 16
GROUP_U == 0

\* interest_lo with the bracket group set for the low nibble c too
interest_lo_wide_group ==
    <<GROUP_U, GROUP_U, GROUP_Q, GROUP_U, GROUP_U, GROUP_U, GROUP_U, GROUP_U,
      GROUP_U, GROUP_U, GROUP_C, GROUP_B, GROUP_N + GROUP_E + GROUP_B, GROUP_B, GROUP_U, GROUP_U>>

\* the nibble tables of interest_lo_hi, one 16-byte lane
interest_lo ==
    <<GROUP_U, GROUP_U, GROUP_Q, GROUP_U, GROUP_U, GROUP_U, GROUP_U, GROUP_U,
      GROUP_U, GROUP_U, GROUP_C, GROUP_B, GROUP_N + GROUP_E, GROUP_B, GROUP_U, GROUP_U>>

\* interest_hi with the comma left out of the high nibble 2
interest_hi_without_comma ==
    <<GROUP_U, GROUP_U, GROUP_Q, GROUP_C, GROUP_U, GROUP_B + GROUP_E, GROUP_U, GROUP_B,
      GROUP_U, GROUP_U, GROUP_U, GROUP_U, GROUP_U, GROUP_U, GROUP_U, GROUP_U>>

interest_hi ==
    <<GROUP_U, GROUP_U, GROUP_N + GROUP_Q, GROUP_C, GROUP_U, GROUP_B + GROUP_E, GROUP_U, GROUP_B,
      GROUP_U, GROUP_U, GROUP_U, GROUP_U, GROUP_U, GROUP_U, GROUP_U, GROUP_U>>

\* _mm256_shuffle_epi8 on one byte: zero when the index has its top bit set,
\* the table entry of its low nibble otherwise
shuffle_epi8(table, index) == IF index >= 128 THEN 0 ELSE table[(index % 16) + 1]

\* the AND of the two lookups of one byte; the high nibble is shifted down
\* and masked with 0x7f before its lookup
interest_hi_lo(byte) ==
    BitAnd(shuffle_epi8(interest_lo, byte), shuffle_epi8(interest_hi, (byte \div 16) % 128))

BlockOffsets == 0..(BLOCK_SIZE - 1)

index_quote_of(input, at) ==
    {b \in BlockOffsets : InBounds(input, at + b) /\ At(input, at + b) \in {QUOTE, BSLASH}}

index_interest_of(input, at) ==
    {b \in BlockOffsets : InBounds(input, at + b) /\ interest_hi_lo(At(input, at + b)) # 0}

set_indexes(scan, interest, quote) ==
    LET simd == [scan.simd EXCEPT !.interest = interest, !.quote = quote] IN
    [scan EXCEPT !.simd = IF simd.active_index = "Interest"
                          THEN pre_index_interest(simd) ELSE pre_index_quote(simd)]

active_indexes(simd) == IF simd.active_index = "Interest" THEN simd.interest ELSE simd.quote

\* one iteration of the 'block loop: select the lowest bit of the active
\* index, clear it from both indexes and dispatch the byte it names
block_dispatch(input, scan, offsets) ==
    LET block_offset == trailing_zeros(active_indexes(scan.simd))
        shifted == [scan EXCEPT !.simd.interest = shift_from(@, block_offset + 1),
                                !.simd.quote = shift_from(@, block_offset + 1)]
        input_offset == scan.input_offset + block_offset
        ok == InBounds(input, input_offset)
        i0 == ScanFnInput(input, shifted, offsets, input_offset,
                          IF ok THEN At(input, input_offset) ELSE 0)
    IN match_interest(IF ok THEN i0 ELSE Fault(i0, "oob_read"))

aligned_last_block_start(scan) ==
    LET remaining == scan.input_len - scan.input_offset
        last_block_start == remaining - BLOCK_SIZE
        offset == last_block_start % BLOCK_SIZE
    IN scan.input_len - (BLOCK_SIZE + offset)

\* prefix_read_to without the scalar scan of the unaligned prefix
prefix_read_to_unaligned(scan, align) == scan.input_offset

\* the bound of the scalar scan of the unaligned prefix; align is the
\* address of the input modulo the block size
prefix_read_to(scan, align) ==
    LET aligned_start == (align + scan.input_offset) % BLOCK_SIZE IN
    IF aligned_start # 0
    THEN (scan.input_offset + BLOCK_SIZE) - aligned_start
    ELSE scan.input_offset

\* block_load skipping every block without a quote, outside strings too
block_load_skips_unquoted(input, scan) ==
    LET quote == index_quote_of(input, scan.input_offset)
        interest == index_interest_of(input, scan.input_offset)
        enter == quote # {}
    IN [enter |-> enter,
        scan |-> IF enter THEN set_indexes(scan, interest, quote)
                 ELSE [scan EXCEPT !.input_offset = @ + BLOCK_SIZE],
        fault |-> IF scan.input_offset + BLOCK_SIZE <= Len(input) THEN "none" ELSE "oob_read"]

\* one iteration of 'aligned up to the 'block loop: the block is classified
\* and entered, or skipped when it has no quote inside a string
block_load(input, scan) ==
    LET quote == index_quote_of(input, scan.input_offset)
        interest == index_interest_of(input, scan.input_offset)
        enter == quote # {} \/ scan.simd.active_index = "Interest"
    IN [enter |-> enter,
        scan |-> IF enter THEN set_indexes(scan, interest, quote)
                 ELSE [scan EXCEPT !.input_offset = @ + BLOCK_SIZE],
        fault |-> IF scan.input_offset + BLOCK_SIZE <= Len(input) THEN "none" ELSE "oob_read"]

\* the 'block loop of one block and the step to the next block
RECURSIVE simd_block(_, _, _, _)
simd_block(input, scan, offsets, fault) ==
    IF scan.simd.interest # {}
    THEN LET i == block_dispatch(input, scan, offsets) IN
         simd_block(input, i.scan, i.offsets, IF fault = "none" THEN i.fault ELSE fault)
    ELSE [scan |-> [scan EXCEPT !.input_offset = @ + BLOCK_SIZE], offsets |-> offsets,
          fault |-> fault]

\* the 'aligned loop
RECURSIVE simd_aligned(_, _, _, _, _)
simd_aligned(input, scan, offsets, last, fault) ==
    IF scan.input_offset <= last
    THEN LET b == block_load(input, scan)
             f == IF fault = "none" THEN b.fault ELSE fault
         IN IF b.enter
            THEN LET r == simd_block(input, b.scan, offsets, f) IN
                 simd_aligned(input, r.scan, r.offsets, last, r.fault)
            ELSE simd_aligned(input, b.scan, offsets, last, f)
    ELSE [scan |-> scan, offsets |-> offsets, fault |-> fault]

\* x86_64::scan followed by scan_end: the scanner state and table when the
\* vector scan of an accepted input at the given alignment ends
scan_simd_state(input, detached, align) ==
    LET bounds == scan_begin(input)
        s == Scan_attach(detached.stack, bounds.start, bounds.end)
        prefix == scan_block(input, s, Offsets_attach(detached.offsets),
                             prefix_read_to(s, align), "none")
        aligned == simd_aligned(input, prefix.scan, prefix.offsets,
                                aligned_last_block_start(prefix.scan), prefix.fault)
        tail == scan_block(input, aligned.scan, aligned.offsets, aligned.scan.input_len,
                           aligned.fault)
        i == scan_end_state(input, tail.scan, tail.offsets)
    IN [scan |-> i.scan, offsets |-> i.offsets,
        fault |-> IF tail.fault = "none" THEN i.fault ELSE tail.fault]

(***************************************************************************)
(* The unescaper (unescape.rs, unescape/fallback.rs, std_ext/char.rs).     *)
(***************************************************************************)
\* char::try_from(u32)
IsChar(code) == code \in 0..55295 \/ code \in 57344..1114111

\* char::encode_utf8
encode_utf8(c) ==
    CASE c < 128 -> <<c>>
      [] c < 2048 -> <<192 + (c \div 64), 128 + (c % 64)>>
      [] c < 65536 -> <<224 + (c \div 4096), 128 + ((c \div 64) % 64), 128 + (c % 64)>>
      [] OTHER -> <<240 + (c \div 262144), 128 + ((c \div 4096) % 64),
                    128 + ((c \div 64) % 64), 128 + (c % 64)>>

\* try_from_utf16_surrogate_pair without the offset of the supplementary planes
try_from_utf16_surrogate_pair_in_bmp(high, low) ==
    IF high < 55296 \/ low < 56320 THEN -1
    ELSE LET code == ((high - 55296) * 1024) + (low - 56320) IN
         IF IsChar(code) THEN code ELSE -1

\* the code point of the pair, or -1
try_from_utf16_surrogate_pair(high, low) ==
    IF high < 55296 \/ low < 56320 THEN -1
    ELSE LET code == ((high - 55296) * 1024) + (low - 56320) + 65536 IN
         IF IsChar(code) THEN code ELSE -1

\* the value of a hexadecimal digit, or -1
HexValue(b) ==
    CASE b \in 48..57 -> b - 48
      [] b \in 97..102 -> b - 87
      [] b \in 65..70 -> b - 55
      [] OTHER -> -1

\* u16::from_str_radix(digits, 16) on four bytes, or -1: a leading `+` is a
\* sign, every other byte has to be a digit
from_str_radix_16(d) ==
    LET v(k) == HexValue(d[k]) IN
    IF d[1] = 43
    THEN IF v(2) < 0 \/ v(3) < 0 \/ v(4) < 0 THEN -1
         ELSE (v(2) * 256) + (v(3) * 16) + v(4)
    ELSE IF v(1) < 0 \/ v(2) < 0 \/ v(3) < 0 \/ v(4) < 0 THEN -1
         ELSE (v(1) * 4096) + (v(2) * 256) + (v(3) * 16) + v(4)

NoSurrogate == -1

Unescape_Scan == [input_offset |-> 0, escape |-> FALSE, start |-> 0, first_surrogate |-> NoSurrogate]

UnescapeFnInput(input, curr_offset, scan, buf) ==
    [input |-> input, curr_offset |-> curr_offset, scan |-> scan, buf |-> buf,
     fault |-> "none"]

\* flush: copy input[start, flush_to) to the output
flush(i, flush_to) ==
    LET start == i.scan.start IN
    IF flush_to = start THEN i
    ELSE IF flush_to < start \/ flush_to > Len(i.input)
              \/ Len(i.buf) + (flush_to - start) > Len(i.input)
         THEN [Fault(i, "oob_copy") EXCEPT !.scan.start = flush_to]
         ELSE [i EXCEPT !.buf = @ \o SubSeq(i.input, start + 1, flush_to),
                        !.scan.start = flush_to]

unescape_flush(i) == [flush(i, i.curr_offset) EXCEPT !.scan.start = @ + 1]

push_unescaped_byte(i, b) == [i EXCEPT !.buf = Append(@, b), !.scan.start = @ + 1]

\* push_unescaped_char skipping the whole escape, though the backslash and
\* the `u` are skipped already
push_unescaped_char_skips_escape(i, c) ==
    [i EXCEPT !.buf = @ \o encode_utf8(c), !.scan.start = @ + 6]

\* push_unescaped_char leaving the four digits to be copied as well
push_unescaped_char_keeps_digits(i, c) == [i EXCEPT !.buf = @ \o encode_utf8(c)]

push_unescaped_char(i, c) == [i EXCEPT !.buf = @ \o encode_utf8(c), !.scan.start = @ + 4]

begin_surrogate_pair(i, first) ==
    [i EXCEPT !.scan.first_surrogate = first, !.scan.start = @ + 4]

\* unescape_code pushing every code unit as if it were a char, a surrogate
\* half too
unescape_code_pushes_any_code(i) ==
    LET digits == SubSeq(i.input, i.curr_offset + 1, i.curr_offset + 4)
        code == IF from_utf8(digits) THEN from_str_radix_16(digits) ELSE -1
    IN IF code < 0 THEN i
       ELSE push_unescaped_char([i EXCEPT !.scan.first_surrogate = NoSurrogate], code)

\* the closure run on the four bytes after `\u`
unescape_code(i) ==
    LET digits == SubSeq(i.input, i.curr_offset + 1, i.curr_offset + 4)
        code == IF from_utf8(digits) THEN from_str_radix_16(digits) ELSE -1
    IN IF code < 0 THEN i
       ELSE LET first == i.scan.first_surrogate
                taken == [i EXCEPT !.scan.first_surrogate = NoSurrogate]
            IN IF first # NoSurrogate
               THEN LET ch == try_from_utf16_surrogate_pair(first, code) IN
                    IF ch < 0 THEN taken ELSE push_unescaped_char(taken, ch)
               ELSE IF IsChar(code) THEN push_unescaped_char(taken, code)
                    ELSE begin_surrogate_pair(taken, code)

\* interest_unescape dropping the second backslash of a pair
interest_unescape_drops_backslash(i) ==
    LET escaped == i.scan.escape
        i1 == [i EXCEPT !.scan.escape = ~escaped]
    IN IF escaped THEN [i1 EXCEPT !.scan.start = @ + 1]
       ELSE LET i2 == unescape_flush(i1)
                k == i2.curr_offset + 1
                ok == InBounds(i2.input, k)
                i3 == [(IF ok THEN i2 ELSE Fault(i2, "oob_read")) EXCEPT !.curr_offset = k]
                b == IF ok THEN At(i2.input, k) ELSE 0
                done(j) == [j EXCEPT !.scan.escape = FALSE]
            IN CASE b = CH_n -> done(push_unescaped_byte(i3, 10))
                 [] b = QUOTE -> done(push_unescaped_byte(i3, QUOTE))
                 [] b = BSLASH -> i3
                 [] b = 114 -> done(push_unescaped_byte(i3, 13))
                 [] b = CH_t -> done(push_unescaped_byte(i3, 9))
                 [] b = CH_f -> done(push_unescaped_byte(i3, 12))
                 [] b = 98 -> done(push_unescaped_byte(i3, 8))
                 [] OTHER -> done(i3)

\* interest_unescape: the handler of a backslash
interest_unescape(i) ==
    LET escaped == i.scan.escape
        i1 == [i EXCEPT !.scan.escape = ~escaped]
    IN IF escaped THEN push_unescaped_byte(i1, BSLASH)
       ELSE LET i2 == unescape_flush(i1)
                k == i2.curr_offset + 1
                ok == InBounds(i2.input, k)
                i3 == [(IF ok THEN i2 ELSE Fault(i2, "oob_read")) EXCEPT !.curr_offset = k]
                b == IF ok THEN At(i2.input, k) ELSE 0
                done(j) == [j EXCEPT !.scan.escape = FALSE]
            IN CASE b = CH_n -> done(push_unescaped_byte(i3, 10))
                 [] b = QUOTE -> done(push_unescaped_byte(i3, QUOTE))
                 [] b = BSLASH -> i3
                 [] b = 114 -> done(push_unescaped_byte(i3, 13))
                 [] b = CH_t -> done(push_unescaped_byte(i3, 9))
                 [] b = CH_f -> done(push_unescaped_byte(i3, 12))
                 [] b = 98 -> done(push_unescaped_byte(i3, 8))
                 [] b = 117 ->
                      LET i4 == [i3 EXCEPT !.scan.start = @ + 1, !.curr_offset = @ + 1] IN
                      IF Len(i4.input) >= 4 /\ i4.curr_offset <= Len(i4.input) - 4
                      THEN done(unescape_code(i4))
                      ELSE done(i4)
                 [] OTHER -> done(i3)

\* one iteration of unescape_block
unescape_block_byte(i) ==
    LET k == i.scan.input_offset
        i1 == IF At(i.input, k) = BSLASH
              THEN interest_unescape([i EXCEPT !.curr_offset = k])
              ELSE i
    IN [i1 EXCEPT !.scan.input_offset = @ + 1]

RECURSIVE unescape_block(_, _)
unescape_block(i, read_to) ==
    IF i.scan.input_offset < read_to
    THEN unescape_block(unescape_block_byte(i), read_to)
    ELSE i

\* unescape_end: flush the rest of the input
unescape_end(i) == flush(i, Len(i.input))

\* unescape_trusted by the byte loop: the final state, and the bytes returned
unescape_fallback_state(bytes) ==
    unescape_end(unescape_block(UnescapeFnInput(bytes, 0, Unescape_Scan, <<>>), Len(bytes)))

unescape_trusted(bytes) == unescape_fallback_state(bytes).buf

\* mask_escape without the last byte of the block
mask_escape_misses_last_byte(bytes, at) ==
    {b \in BlockOffsets \ {BLOCK_SIZE - 1} : At(bytes, at + b) = BSLASH}

\* UnescapeSimd::mask_escape of the block loaded at `at`: the block offsets
\* that hold a backslash
mask_escape(bytes, at) == {b \in BlockOffsets : At(bytes, at + b) = BSLASH}

\* one iteration of the 'block loop of unescape_simd: the handler runs on
\* the backslash at the lowest offset of the mask
unescape_simd_dispatch(i, mask) ==
    interest_unescape([i EXCEPT !.curr_offset = i.scan.input_offset + trailing_zeros(mask)])

\* a reference JSON escaper (the re-escape of the round trip): the quote, the
\* backslash and the control characters are escaped, the short escapes used
\* where JSON has them; with ascii_only every character above U+007F is
\* written as \uXXXX too, as a surrogate pair above U+FFFF
HexDigit(v) == IF v < 10 THEN 48 + v ELSE 87 + v

CodeEscapeOf(unit) ==
    <<BSLASH, 117, HexDigit(unit \div 4096), HexDigit((unit \div 256) % 16),
      HexDigit((unit \div 16) % 16), HexDigit(unit % 16)>>

\* the scalar of the UTF-8 sequence of width w at offset k
scalar_at(bytes, k, w) ==
    CASE w = 2 -> ((At(bytes, k) - 192) * 64) + (At(bytes, k + 1) - 128)
      [] w = 3 -> ((At(bytes, k) - 224) * 4096) + ((At(bytes, k + 1) - 128) * 64)
                  + (At(bytes, k + 2) - 128)
      [] w = 4 -> ((At(bytes, k) - 240) * 262144) + ((At(bytes, k + 1) - 128) * 4096)
                  + ((At(bytes, k + 2) - 128) * 64) + (At(bytes, k + 3) - 128)
      [] OTHER -> At(bytes, k)

json_escape_char(c, ascii_only) ==
    CASE c = QUOTE -> <<BSLASH, QUOTE>>
      [] c = BSLASH -> <<BSLASH, BSLASH>>
      [] c = 10 -> <<BSLASH, CH_n>>
      [] c = 13 -> <<BSLASH, 114>>
      [] c = 9 -> <<BSLASH, CH_t>>
      [] c = 8 -> <<BSLASH, 98>>
      [] c = 12 -> <<BSLASH, CH_f>>
      [] OTHER ->
           IF c < 32 THEN CodeEscapeOf(c)
           ELSE IF c < 128 \/ ~ascii_only THEN encode_utf8(c)
           ELSE IF c < 65536 THEN CodeEscapeOf(c)
           ELSE CodeEscapeOf(55296 + ((c - 65536) \div 1024))
                \o CodeEscapeOf(56320 + ((c - 65536) % 1024))

RECURSIVE json_escape_from(_, _, _)
json_escape_from(bytes, k, ascii_only) ==
    IF k >= Len(bytes) THEN <<>>
    ELSE LET w == utf8_char_width(bytes, k) IN
         json_escape_char(scalar_at(bytes, k, w), ascii_only)
         \o json_escape_from(bytes, k + (IF w = 0 THEN 1 ELSE w), ascii_only)

json_escape(bytes, ascii_only) == json_escape_from(bytes, 0, ascii_only)

\* unescape_trusted takes the vector path on a string longer than one block
\* (X86_64_AVX2_VECTORIZATION_THRESHOLD is the block size)
unescape_vectorized(bytes, has_avx2) == has_avx2 /\ Len(bytes) > BLOCK_SIZE

(***************************************************************************)
(* The Document facade (de/document.rs).  A view is a Map or an Arr; an    *)
(* iterator holds the table indexes of the records it will yield next.     *)
(***************************************************************************)
View(kind, size_hint, start_from_offset) ==
    [kind |-> kind, size_hint |-> size_hint, start_from_offset |-> start_from_offset]

NoView == View("None", 0, NoIndex)

as_map(d) ==
    View("Map", d.offsets.root_size_hint,
         IF d.offsets.root_size_hint > 0 THEN 0 ELSE NoIndex)

is_err(d) == d.offsets.err

\* Offset::to_element: the Kind of a record, with the view of a container
to_element(offset, self_offset) ==
    [kind |-> offset.kind,
     view |-> IF offset.kind.tag \in {"Map", "Arr"}
              THEN View(offset.kind.tag, offset.kind.n,
                        IF offset.kind.n > 0 THEN self_offset + 1 ELSE NoIndex)
              ELSE NoView]

NoItem == [kind |-> OffsetKind("None", 0, 0, FALSE, 0), view |-> NoView]

\* an iterator: Entries holds a key and a value index, Iter an element index
Iterator(kind, key, value) == [kind |-> kind, key |-> key, value |-> value]

NoIterator == Iterator("None", NoIndex, NoIndex)

\* the reads of get_unchecked!(offsets.elements, index) an iterator makes
ReadsInTable(elements, indexes) == \A k \in indexes : k = NoIndex \/ k < Len(elements)

\* Map::entries
entries(view) ==
    IF view.start_from_offset # NoIndex
    THEN Iterator("Entries", view.start_from_offset, view.start_from_offset + 1)
    ELSE Iterator("Entries", NoIndex, NoIndex)

\* Arr::iter
iter(view) == Iterator("Iter", NoIndex, view.start_from_offset)

\* Entries::next yielding the pair whatever the kind of its key
iterator_next_any_key(elements, it) ==
    LET none == [it |-> Iterator(it.kind, NoIndex, NoIndex), key |-> NoItem,
                 item |-> NoItem, reads |-> {}]
    IN IF it.kind = "Entries"
       THEN IF it.key # NoIndex /\ it.value # NoIndex
            THEN LET key == elements[it.key + 1]
                     value == elements[it.value + 1]
                 IN [it |-> Iterator("Entries", key.next, value.next),
                     key |-> to_element(key, it.key),
                     item |-> to_element(value, it.value),
                     reads |-> {key.next, value.next}]
            ELSE none
       ELSE IF it.value # NoIndex
            THEN LET elem == elements[it.value + 1] IN
                 [it |-> Iterator("Iter", NoIndex, elem.next),
                  key |-> NoItem,
                  item |-> to_element(elem, it.value),
                  reads |-> {elem.next}]
            ELSE none

\* Entries::next and Iter::next: the iterator after the call, the key and the
\* item it yields (NoItem when it yields nothing) and the indexes it reads
iterator_next(elements, it) ==
    LET none == [it |-> Iterator(it.kind, NoIndex, NoIndex), key |-> NoItem,
                 item |-> NoItem, reads |-> {}]
    IN IF it.kind = "Entries"
       THEN IF it.key # NoIndex /\ it.value # NoIndex
            THEN LET key == elements[it.key + 1]
                     value == elements[it.value + 1]
                 IN IF key.kind.tag # "Str" THEN none
                    ELSE [it |-> Iterator("Entries", key.next, value.next),
                          key |-> to_element(key, it.key),
                          item |-> to_element(value, it.value),
                          reads |-> {key.next, value.next}]
            ELSE none
       ELSE IF it.value # NoIndex
            THEN LET elem == elements[it.value + 1] IN
                 [it |-> Iterator("Iter", NoIndex, elem.next),
                  key |-> NoItem,
                  item |-> to_element(elem, it.value),
                  reads |-> {elem.next}]
            ELSE none

\* Slice::as_str: the bytes of a slice of the input
SliceInBounds(input, kind) == kind.offset + kind.len <= Len(input)
as_str(input, kind) == SubSeq(input, kind.offset + 1, kind.offset + kind.len)

\* Str::to_unescaped: the Cow returned, owned when the unescaper ran
to_unescaped(input, kind) ==
    IF kind.flag
    THEN [cow |-> "Owned", str |-> unescape_trusted(as_str(input, kind))]
    ELSE [cow |-> "Borrowed", str |-> as_str(input, kind)]

(***************************************************************************)
(* Value trees.  A node has a tag, the bytes of a string or number, the    *)
(* elements of an array and the members of an object (a function from the  *)
(* keys, as serde_json::Map is a map).                                     *)
(***************************************************************************)
Node(t, s, kids, fields) == [t |-> t, s |-> s, kids |-> kids, fields |-> fields]
NoFields == [k \in {} |-> 0]
StrNode(s) == Node("Str", s, <<>>, NoFields)
NumNode(s) == Node("Num", s, <<>>, NoFields)
BoolNode(b) == Node(IF b THEN "True" ELSE "False", <<>>, <<>>, NoFields)
NullNode == Node("Null", <<>>, <<>>, NoFields)
ArrNode(kids) == Node("Arr", <<>>, kids, NoFields)
MapNode(fields) == Node("Map", <<>>, <<>>, fields)

\* serde_json::Map::insert
Insert(fields, k, v) ==
    [x \in (DOMAIN fields) \cup {k} |-> IF x = k THEN v ELSE fields[x]]

\* the end of the JSON number that starts at k, or -1
RECURSIVE DigitsEnd(_, _)
DigitsEnd(b, k) == IF InBounds(b, k) /\ At(b, k) \in Digits THEN DigitsEnd(b, k + 1) ELSE k

IsDigitAt(b, k) == InBounds(b, k) /\ At(b, k) \in Digits

json_number_end(b, k) ==
    LET k1 == IF InBounds(b, k) /\ At(b, k) = MINUS THEN k + 1 ELSE k
        k2 == IF ~IsDigitAt(b, k1) THEN -1
              ELSE IF At(b, k1) = 48 THEN k1 + 1 ELSE DigitsEnd(b, k1)
        k3 == IF k2 >= 0 /\ InBounds(b, k2) /\ At(b, k2) = 46
              THEN IF IsDigitAt(b, k2 + 1) THEN DigitsEnd(b, k2 + 1) ELSE -1
              ELSE k2
        k4 == IF k3 >= 0 /\ InBounds(b, k3) /\ At(b, k3) \in {69, 101}
              THEN LET k5 == IF InBounds(b, k3 + 1) /\ At(b, k3 + 1) \in {43, MINUS}
                             THEN k3 + 2 ELSE k3 + 1
                   IN IF IsDigitAt(b, k5) THEN DigitsEnd(b, k5) ELSE -1
              ELSE k3
    IN k4

\* serde_json::Number::from_str accepts the whole of the bytes
IsJsonNumber(bytes) == bytes # <<>> /\ json_number_end(bytes, 0) = Len(bytes)

\* str::trim on the bytes of a number: ASCII white space at both ends
RECURSIVE TrimStart(_)
TrimStart(bytes) ==
    IF bytes # <<>> /\ bytes[1] \in (9..13) \cup {SPACE} THEN TrimStart(Tail(bytes)) ELSE bytes

trim(bytes) == TrimStart(SubSeq(bytes, 1, trim_end_len(bytes, Len(bytes))))

\* Document::to_value: the walk is bounded by the size of the table, and a
\* read outside the table or the input yields a node no parse produces
OutOfBounds == Node("OutOfBounds", <<>>, <<>>, NoFields)

RECURSIVE items_of(_, _, _)
items_of(elements, it, fuel) ==
    IF fuel = 0 THEN <<[key |-> NoItem, item |-> [NoItem EXCEPT !.kind.tag = "OutOfBounds"]]>>
    ELSE IF ~ReadsInTable(elements, {it.key, it.value})
    THEN <<[key |-> NoItem, item |-> [NoItem EXCEPT !.kind.tag = "OutOfBounds"]]>>
    ELSE LET r == iterator_next(elements, it) IN
         IF r.item = NoItem THEN <<>>
         ELSE <<[key |-> r.key, item |-> r.item]>> \o items_of(elements, r.it, fuel - 1)

RECURSIVE kind_to_value(_, _, _, _)
RECURSIVE insert_entries(_, _, _, _, _, _)
insert_entries(input, elements, items, k, fields, fuel) ==
    IF k > Len(items) THEN fields
    ELSE LET e == items[k]
             key == IF e.key = NoItem \/ ~SliceInBounds(input, e.key.kind)
                    THEN <<-1>> ELSE to_unescaped(input, e.key.kind).str
         IN insert_entries(input, elements, items, k + 1,
                           Insert(fields, key, kind_to_value(input, elements, e.item, fuel)),
                           fuel)

kind_to_value(input, elements, item, fuel) ==
    LET kind == item.kind IN
    CASE fuel = 0 -> OutOfBounds
      [] kind.tag = "Str" ->
            IF SliceInBounds(input, kind) THEN StrNode(to_unescaped(input, kind).str)
            ELSE OutOfBounds
      [] kind.tag = "Num" ->
            IF ~SliceInBounds(input, kind) THEN OutOfBounds
            ELSE IF IsJsonNumber(trim(as_str(input, kind)))
                 THEN NumNode(trim(as_str(input, kind)))
                 ELSE StrNode(as_str(input, kind))
      [] kind.tag = "Bool" -> BoolNode(kind.flag)
      [] kind.tag = "Null" -> NullNode
      [] kind.tag = "Map" ->
            MapNode(insert_entries(input, elements,
                                   items_of(elements, entries(item.view), Len(elements) + 1),
                                   1, NoFields, fuel - 1))
      [] kind.tag = "Arr" ->
            LET items == items_of(elements, iter(item.view), Len(elements) + 1) IN
            ArrNode([k \in 1..Len(items) |->
                        kind_to_value(input, elements, items[k].item, fuel - 1)])
      [] OTHER -> OutOfBounds

to_value(input, d) ==
    kind_to_value(input, d.offsets.elements,
                  [kind |-> Map(d.offsets.root_size_hint), view |-> as_map(d)],
                  Len(d.offsets.elements) + 1)

(***************************************************************************)
(* The reference parse the tests compare with (serde_json::from_slice),    *)
(* for a minified object: no white space but after the closing brace.      *)
(***************************************************************************)
ParseFail == [ok |-> FALSE, v |-> NullNode, k |-> 0]
ParseOk(v, k) == [ok |-> TRUE, v |-> v, k |-> k]

IsHex4(b, k) == \A j \in 0..3 : InBounds(b, k + j) /\ HexValue(At(b, k + j)) >= 0
Hex4(b, k) ==
    (HexValue(At(b, k)) * 4096) + (HexValue(At(b, k + 1)) * 256)
    + (HexValue(At(b, k + 2)) * 16) + HexValue(At(b, k + 3))

SimpleEscapes ==
    (QUOTE :> QUOTE) @@ (BSLASH :> BSLASH) @@ (47 :> 47) @@ (98 :> 8) @@ (CH_f :> 12)
    @@ (CH_n :> 10) @@ (114 :> 13) @@ (CH_t :> 9)

\* the characters of a string after its opening quote
RECURSIVE ref_chars(_, _, _)
ref_chars(b, k, acc) ==
    IF ~InBounds(b, k) THEN ParseFail
    ELSE LET c == At(b, k) IN
         CASE c = QUOTE -> ParseOk(StrNode(acc), k + 1)
           [] c < 32 -> ParseFail
           [] c = BSLASH ->
                IF ~InBounds(b, k + 1) THEN ParseFail
                ELSE LET e == At(b, k + 1) IN
                     IF e \in DOMAIN SimpleEscapes
                     THEN ref_chars(b, k + 2, Append(acc, SimpleEscapes[e]))
                     ELSE IF e = 117 /\ IsHex4(b, k + 2)
                     THEN LET u == Hex4(b, k + 2) IN
                          IF IsChar(u) THEN ref_chars(b, k + 6, acc \o encode_utf8(u))
                          ELSE IF u \in 55296..56319 /\ InBounds(b, k + 7)
                                  /\ At(b, k + 6) = BSLASH /\ At(b, k + 7) = 117
                                  /\ IsHex4(b, k + 8) /\ Hex4(b, k + 8) \in 56320..57343
                               THEN ref_chars(b, k + 12,
                                       acc \o encode_utf8(65536 + ((u - 55296) * 1024)
                                                          + (Hex4(b, k + 8) - 56320)))
                               ELSE ParseFail
                     ELSE ParseFail
           [] OTHER -> ref_chars(b, k + 1, Append(acc, c))

HasLiteral(b, k, lit) ==
    \A j \in 1..Len(lit) : InBounds(b, k + j - 1) /\ At(b, k + j - 1) = lit[j]

RECURSIVE ref_value(_, _, _)
RECURSIVE ref_elements(_, _, _, _)
RECURSIVE ref_members(_, _, _, _)

\* the elements of an array after its opening bracket or a comma
ref_elements(b, k, kids, fuel) ==
    LET v == ref_value(b, k, fuel) IN
    IF ~v.ok \/ ~InBounds(b, v.k) THEN ParseFail
    ELSE CASE At(b, v.k) = COMMA -> ref_elements(b, v.k + 1, Append(kids, v.v), fuel)
           [] At(b, v.k) = RBRACKET -> ParseOk(ArrNode(Append(kids, v.v)), v.k + 1)
           [] OTHER -> ParseFail

\* the members of an object after its opening brace or a comma
ref_members(b, k, fields, fuel) ==
    IF ~(InBounds(b, k) /\ At(b, k) = QUOTE) THEN ParseFail
    ELSE LET key == ref_chars(b, k + 1, <<>>) IN
         IF ~key.ok \/ ~(InBounds(b, key.k) /\ At(b, key.k) = COLON) THEN ParseFail
         ELSE LET v == ref_value(b, key.k + 1, fuel) IN
              IF ~v.ok \/ ~InBounds(b, v.k) THEN ParseFail
              ELSE CASE At(b, v.k) = COMMA ->
                          ref_members(b, v.k + 1, Insert(fields, key.v.s, v.v), fuel)
                     [] At(b, v.k) = RBRACE ->
                          ParseOk(MapNode(Insert(fields, key.v.s, v.v)), v.k + 1)
                     [] OTHER -> ParseFail

ref_value(b, k, fuel) ==
    IF fuel = 0 \/ ~InBounds(b, k) THEN ParseFail
    ELSE LET c == At(b, k) IN
         CASE c = QUOTE -> ref_chars(b, k + 1, <<>>)
           [] c = LBRACE ->
                IF InBounds(b, k + 1) /\ At(b, k + 1) = RBRACE
                THEN ParseOk(MapNode(NoFields), k + 2)
                ELSE ref_members(b, k + 1, NoFields, fuel - 1)
           [] c = LBRACKET ->
                IF InBounds(b, k + 1) /\ At(b, k + 1) = RBRACKET
                THEN ParseOk(ArrNode(<<>>), k + 2)
                ELSE ref_elements(b, k + 1, <<>>, fuel - 1)
           [] c = CH_n -> IF HasLiteral(b, k, <<110, 117, 108, 108>>)
                          THEN ParseOk(NullNode, k + 4) ELSE ParseFail
           [] c = CH_t -> IF HasLiteral(b, k, <<116, 114, 117, 101>>)
                          THEN ParseOk(BoolNode(TRUE), k + 4) ELSE ParseFail
           [] c = CH_f -> IF HasLiteral(b, k, <<102, 97, 108, 115, 101>>)
                          THEN ParseOk(BoolNode(FALSE), k + 5) ELSE ParseFail
           [] c \in Digits \cup {MINUS} ->
                LET e == json_number_end(b, k) IN
                IF e < 0 THEN ParseFail ELSE ParseOk(NumNode(SubSeq(b, k + 1, e)), e)
           [] OTHER -> ParseFail

\* the parse of a whole input: an object, then JSON white space only
ref_parse(input) ==
    IF ~from_utf8(input) \/ input = <<>> \/ input[1] # LBRACE THEN ParseFail
    ELSE LET v == ref_value(input, 0, Len(input)) IN
         IF v.ok /\ \A j \in v.k..(Len(input) - 1) : At(input, j) \in {SPACE, 9, 10, 13}
         THEN v ELSE ParseFail

IsValidJson(input) == ref_parse(input).ok

(***************************************************************************)
(* The inputs the model scans.                                             *)
(***************************************************************************)
SeqsUpTo(S, n) == UNION {[1..k -> S] : k \in 0..n}

RECURSIVE Repeat(_, _)
Repeat(bytes, n) == IF n = 0 THEN <<>> ELSE bytes \o Repeat(bytes, n - 1)

RECURSIVE Concat(_)
Concat(units) == IF units = <<>> THEN <<>> ELSE units[1] \o Concat(SubSeq(units, 2, Len(units)))

Braced(body) == <<LBRACE>> \o body \o <<RBRACE>>

CH_a == 97
CH_1 == 49

\* every body of at most MaxLen bytes over the bytes the scanner tells apart
BodyAlphabet ==
    {QUOTE, COLON, COMMA, BSLASH, LBRACE, RBRACE, LBRACKET, RBRACKET, CH_1, CH_n, SPACE}
ArbitraryInputs == {Braced(b) : b \in SeqsUpTo(BodyAlphabet, MaxLen)}

\* every input of at most MaxPre bytes over braces, white space (a space and
\* the two bytes of U+00A0) and a byte that is never valid UTF-8
PreAlphabet == {LBRACE, RBRACE, SPACE, 194, 160, 255}
PreflightInputs == SeqsUpTo(PreAlphabet, MaxPre)

\* valid minified JSON objects
KeyLit == <<QUOTE, CH_a, QUOTE>>
KeyLits == {<<QUOTE, 98, QUOTE>>, <<QUOTE, CH_a, QUOTE>>, <<QUOTE, BSLASH, CH_t, QUOTE>>}
StrLits ==
    {<<QUOTE, QUOTE>>,
     <<QUOTE, CH_a, QUOTE>>,
     <<QUOTE, BSLASH, CH_n, QUOTE>>,
     <<QUOTE, BSLASH, BSLASH, QUOTE>>,
     <<QUOTE, CH_a, BSLASH, QUOTE, COMMA, QUOTE>>,
     <<QUOTE, COLON, SPACE, RBRACE, LBRACKET, QUOTE>>}
NumLits == {<<CH_1>>, <<MINUS, CH_1, 46, 50>>}
AtomLits == {<<CH_n, 117, 108, 108>>, <<CH_t, 114, 117, 101>>, <<CH_f, CH_a, 108, 115, 101>>}
Scalars == StrLits \cup NumLits \cup AtomLits
FewScalars == {<<CH_1>>, <<CH_t, 114, 117, 101>>, <<QUOTE, BSLASH, QUOTE, QUOTE>>}
Pair(k, v) == k \o <<COLON>> \o v
ArrLit(body) == <<LBRACKET>> \o body \o <<RBRACKET>>
Containers ==
    {ArrLit(<<>>), Braced(<<>>)}
    \cup {ArrLit(v) : v \in Scalars}
    \cup {ArrLit(v \o <<COMMA>> \o w) : v \in Scalars, w \in FewScalars}
    \cup {Braced(Pair(KeyLit, v)) : v \in FewScalars}
    \cup {ArrLit(ArrLit(v) \o <<COMMA>> \o Braced(Pair(KeyLit, v))) : v \in FewScalars}
    \cup {Braced(Pair(KeyLit, v) \o <<COMMA>> \o Pair(StrLit, ArrLit(v))) :
            v \in FewScalars, StrLit \in {<<QUOTE, BSLASH, QUOTE, QUOTE>>}}
Values == Scalars \cup Containers
ValidInputs ==
    {Braced(<<>>), Braced(<<>>) \o <<NEWLINE>>}
    \cup {Braced(Pair(KeyLit, v)) : v \in Values}
    \cup {Braced(Pair(KeyLit, v) \o <<COMMA>> \o Pair(k, w)) :
            v \in Values, w \in FewScalars \cup {ArrLit(<<>>)}, k \in KeyLits}
    \cup {Braced(Pair(KeyLit, v) \o <<COMMA>> \o Pair(k, w)) \o <<NEWLINE>> :
            v \in FewScalars, w \in Containers, k \in KeyLits}

\* an array of j numbers followed by an empty array
WideInputs ==
    {Braced(Pair(KeyLit, ArrLit(Repeat(<<CH_1, COMMA>>, j) \o ArrLit(<<>>)))) : j \in 0..MaxWide}

\* d arrays nested in each other
NestInputs ==
    {Braced(Pair(KeyLit, Repeat(<<LBRACKET>>, d) \o Repeat(<<RBRACKET>>, d))) : d \in 1..MaxNest}

\* a valid document with one byte replaced
MutationBase ==
    Braced(Pair(KeyLit, ArrLit(<<CH_1, COMMA>> \o Braced(Pair(KeyLit, <<QUOTE, BSLASH, CH_n, QUOTE>>)))))
MutatedInputs ==
    {[MutationBase EXCEPT ![k] = b] : k \in 2..(Len(MutationBase) - 1), b \in BodyAlphabet}

\* the inputs of tests/invalid.rs, their long strings shortened
err_internal_whitespace == <<LBRACE, QUOTE, CH_a, QUOTE, COLON, SPACE, 52, 50, RBRACE>>
err_incomplete_string == <<LBRACE, QUOTE, CH_a, QUOTE, COLON, QUOTE, CH_t, RBRACE>>
err_incomplete_string_escape ==
    <<LBRACE, QUOTE, CH_a, QUOTE, COLON, QUOTE, BSLASH, BSLASH, BSLASH, 117, BSLASH, BSLASH,
      BSLASH, QUOTE, RBRACE>>
err_root_level_arr_terminate == <<LBRACE, QUOTE, CH_a, QUOTE, RBRACKET, COMMA, 52, 50, RBRACE>>
invalid_escape == <<LBRACE, QUOTE, CH_a, QUOTE, COLON, QUOTE, BSLASH, 106, QUOTE, RBRACE>>
invalid_map_terminated_as_arr ==
    <<LBRACE, QUOTE, CH_a, QUOTE, COLON, LBRACE, QUOTE, 98, QUOTE, COLON, CH_1, 50, 51,
      RBRACKET, RBRACE>>
invalid_arr_terminated_as_map ==
    <<LBRACE, QUOTE, CH_a, QUOTE, COLON, LBRACKET, QUOTE, 98, QUOTE, COMMA, QUOTE, 99, QUOTE,
      COMMA, QUOTE, 100, QUOTE, RBRACE, RBRACE>>
invalid_arr_terminated_as_map_non_string ==
    <<LBRACE, QUOTE, CH_a, QUOTE, COLON, LBRACKET, LBRACE, RBRACE, COMMA, LBRACE, RBRACE,
      RBRACE, RBRACE>>
TestInputs ==
    {err_internal_whitespace, err_incomplete_string, err_incomplete_string_escape,
     err_root_level_arr_terminate, invalid_escape, invalid_map_terminated_as_arr,
     invalid_arr_terminated_as_map, invalid_arr_terminated_as_map_non_string}

\* a map whose second key is a number, with a pair after it
number_key_after_entry ==
    <<LBRACE, QUOTE, CH_a, QUOTE, COLON, CH_1, COMMA, 50, COMMA, 51, COMMA, QUOTE, 98, QUOTE,
      COLON, CH_1, RBRACE>>

\* a document that leaves two arrays open
unclosed_arrays == <<LBRACE, QUOTE, CH_a, QUOTE, COLON, LBRACKET, LBRACKET, CH_1, RBRACE>>

\* an array of so many numbers that the array opened after them is the
\* record after the last index of the table, closed as a map
wide_arr_terminated_as_map ==
    Braced(Pair(KeyLit, <<LBRACKET>> \o Repeat(<<CH_1, COMMA>>, U16_MAX - 1)
                        \o <<LBRACKET, RBRACE, RBRACKET>>))

\* characters of more than one byte, U+00E9 and U+20AC, in and around strings
\* and numbers: every body of at most MaxLen units, a valid document with
\* them in a key and in an escaped string, and numbers that run into them
Utf8Units ==
    {<<QUOTE>>, <<COLON>>, <<COMMA>>, <<BSLASH>>, <<CH_1>>, <<195, 169>>, <<226, 130, 172>>}
utf8_strings ==
    Braced(Pair(<<QUOTE, 195, 169, QUOTE>>, <<QUOTE, 226, 130, 172, BSLASH, QUOTE, 195, 169, QUOTE>>))
utf8_after_number ==
    <<LBRACE, QUOTE, CH_a, QUOTE, COLON, CH_1, 195, 169, COMMA, QUOTE, 98, QUOTE, COLON,
      LBRACKET, 50, 226, 130, 172, RBRACKET, RBRACE>>
Utf8Inputs ==
    {Braced(Concat(u)) : u \in SeqsUpTo(Utf8Units, MaxLen)} \cup {utf8_strings, utf8_after_number}

\* the inputs scanned one after the other with the same storage: an empty
\* and a longer valid document, one that leaves frames on the stack, two the
\* scanner poisons and one the preflight rejects
RescanInputs ==
    {Braced(<<>>), MutationBase, unclosed_arrays, err_internal_whitespace,
     err_root_level_arr_terminate, <<>>}

Inputs ==
    ArbitraryInputs \cup PreflightInputs \cup ValidInputs \cup WideInputs
    \cup NestInputs \cup MutatedInputs \cup TestInputs
    \cup {number_key_after_entry, unclosed_arrays, wide_arr_terminated_as_map} \cup Utf8Inputs

(***************************************************************************)
(* The scan as a state machine.                                            *)
(***************************************************************************)
VARIABLES
    input,       \* the bytes handed to scan
    avx2,        \* is_x86_feature_detected!("avx2")
    align,       \* the address of the first input byte, modulo the block size
    detached,    \* the DetachedDocument handed to scan
    previous,    \* the Document detached to get it, if there was one
    capacity,    \* the capacities of the two vectors the scan, then the Document, holds
    pc,          \* where the scan is
    read_to,     \* the bound of the running byte loop
    last_block,  \* aligned_last_block_start of the vector scan
    scan,        \* the Scan
    offsets,     \* the Offsets under construction
    fault,       \* the first unchecked operation that left its bounds
    doc,         \* the Document returned
    view,        \* the Map or Arr the caller holds
    it,          \* the iterator the caller holds
    item,        \* what the iterator yielded last
    yielded,     \* how many items the iterator has yielded
    unescape,    \* the unescaper at work on a string: its input, state and output
    escapes,     \* mask_escape of the block the vector unescaper is working through
    produced,    \* the string an earlier unescape returned, escaped again to be this input
    pushed_in    \* history: for each record of the table, the frame it was pushed into

vars == <<input, avx2, align, detached, previous, capacity, pc, read_to, last_block, scan,
          offsets, fault, doc,
          view, it, item, yielded, unescape, escapes, produced, pushed_in>>

\* what the caller of scan holds, and what the scan works on
walk == <<view, it, item, yielded>>
unescaper == <<unescape, escapes, produced>>
scanning == <<input, avx2, align, detached, previous, capacity, read_to, last_block, scan,
              offsets, pushed_in>>

Init ==
    /\ input \in Inputs
    /\ avx2 \in BOOLEAN
    /\ align \in IF avx2 /\ Len(input) > VECTORIZATION_THRESHOLD THEN BlockOffsets ELSE {0}
    /\ detached = DetachedDocument_default
    /\ previous = <<>>
    /\ capacity = Capacity(DEFAULT_OFFSETS_CAPACITY, DEFAULT_STACK_CAPACITY)
    /\ pc = "scan"
    /\ read_to = 0
    /\ last_block = 0
    /\ scan = Scan_attach(<<>>, 0, 0)
    /\ offsets = Offsets_attach(<<>>)
    /\ fault = "none"
    /\ doc = NoDocument
    /\ view = NoView
    /\ it = NoIterator
    /\ item = NoItem
    /\ yielded = 0
    /\ unescape = UnescapeFnInput(<<>>, 0, Unescape_Scan, <<>>)
    /\ escapes = {}
    /\ produced = <<>>
    /\ pushed_in = <<>>

input_remaining(s) == s.input_len - s.input_offset

\* an unchecked operation that left its bounds panics in a checked build and
\* goes on in an unchecked one
Outcome(i, next_pc) ==
    /\ fault' = IF fault = "none" THEN i.fault ELSE fault
    /\ \/ pc' = next_pc
       \/ i.fault # "none" /\ pc' = "panic"

\* the capacities after the pushes of a step: a vector that has to hold len
\* elements has grown if it was smaller, and never shrinks
Grown(s, o) ==
    Capacity(Vec_grown(capacity.offsets, Len(o.elements)),
             Vec_grown(capacity.stack, Len(s.stack.bottom)))

\* A frame is named by its start_from_offset: 0 for the root, and for a
\* nested container the length the table had when the frame was pushed,
\* which no other frame shares.
\* the frames of the records one step of the scan has pushed: a record
\* pushed after the step opened a frame went into that frame, every other
\* one into the frame that was active before the step
frames_pushed(s_before, o_before, s_after, o_after) ==
    LET was == Len(o_before.elements)
        opened == Len(s_after.stack.bottom) > Len(s_before.stack.bottom)
        fresh == s_after.stack.active_map_arr.start_from_offset
    IN [x \in 1..(Len(o_after.elements) - was) |->
           IF opened /\ was + x - 1 >= fresh THEN fresh
           ELSE s_before.stack.active_map_arr.start_from_offset]

\* scan: the preflight rejects the input; the storage handed in is dropped
ScanReject ==
    /\ pc = "scan"
    /\ ~scan_begin(input).ok
    /\ doc' = Document_err
    /\ capacity' = Document_err_capacity
    /\ pc' = "done"
    /\ UNCHANGED <<input, avx2, align, detached, previous>>
    /\ UNCHANGED <<read_to, last_block, scan, offsets, fault>>
    /\ UNCHANGED <<walk, unescaper, pushed_in>>

\* scan: the byte-by-byte scan is chosen
ScanFallback ==
    /\ pc = "scan"
    /\ scan_begin(input).ok
    /\ LET bounds == scan_begin(input)
           s == Scan_attach(detached.stack, bounds.start, bounds.end)
       IN /\ ~(avx2 /\ input_remaining(s) > VECTORIZATION_THRESHOLD)
          /\ scan' = s
          /\ offsets' = Offsets_attach(detached.offsets)
          /\ read_to' = s.input_len
          /\ pc' = "fallback"
    /\ capacity' = Capacity(detached.offsets_capacity, detached.stack_capacity)
    /\ UNCHANGED <<input, avx2, align, detached, previous>>
    /\ UNCHANGED <<last_block, fault, doc>>
    /\ UNCHANGED <<walk, unescaper, pushed_in>>

\* scan: the vector scan is chosen; it starts with the unaligned prefix
ScanSimd ==
    /\ pc = "scan"
    /\ scan_begin(input).ok
    /\ LET bounds == scan_begin(input)
           s == Scan_attach(detached.stack, bounds.start, bounds.end)
       IN /\ avx2 /\ input_remaining(s) > VECTORIZATION_THRESHOLD
          /\ scan' = s
          /\ offsets' = Offsets_attach(detached.offsets)
          /\ read_to' = prefix_read_to(s, align)
          /\ pc' = "prefix"
    /\ capacity' = Capacity(detached.offsets_capacity, detached.stack_capacity)
    /\ UNCHANGED <<input, avx2, align, detached, previous>>
    /\ UNCHANGED <<last_block, fault, doc>>
    /\ UNCHANGED <<walk, unescaper, pushed_in>>

\* fallback::scan_block: one byte of the byte loop
ScanBlockByte ==
    /\ pc \in {"fallback", "prefix", "tail"}
    /\ scan.input_offset < read_to
    /\ LET i == scan_block_byte(input, scan, offsets) IN
          /\ scan' = i.scan
          /\ offsets' = i.offsets
          /\ pushed_in' = pushed_in \o frames_pushed(scan, offsets, i.scan, i.offsets)
          /\ capacity' = Grown(i.scan, i.offsets)
          /\ Outcome(i, pc)
    /\ UNCHANGED <<input, avx2, align, detached, previous>>
    /\ UNCHANGED <<read_to, last_block, doc>>
    /\ UNCHANGED <<walk, unescaper>>

\* the prefix is done: find the last aligned block
AlignedBegin ==
    /\ pc = "prefix"
    /\ scan.input_offset >= read_to
    /\ last_block' = aligned_last_block_start(scan)
    /\ pc' = "aligned"
    /\ UNCHANGED <<input, avx2, align, detached, previous>>
    /\ UNCHANGED <<capacity, read_to, scan, offsets, fault, doc>>
    /\ UNCHANGED <<walk, unescaper, pushed_in>>

\* 'aligned: load a block and classify its bytes, or skip it inside a string
BlockLoad ==
    /\ pc = "aligned"
    /\ scan.input_offset <= last_block
    /\ LET b == block_load(input, scan) IN
          /\ scan' = b.scan
          /\ pc' = IF b.enter THEN "block" ELSE "aligned"
          /\ fault' = IF fault = "none" THEN b.fault ELSE fault
    /\ UNCHANGED <<input, avx2, align, detached, previous>>
    /\ UNCHANGED <<capacity, read_to, last_block, offsets, doc>>
    /\ UNCHANGED <<walk, unescaper, pushed_in>>

\* 'block: dispatch the next selected byte of the block
BlockDispatch ==
    /\ pc = "block"
    /\ scan.simd.interest # {}
    /\ LET i == block_dispatch(input, scan, offsets) IN
          /\ scan' = i.scan
          /\ offsets' = i.offsets
          /\ pushed_in' = pushed_in \o frames_pushed(scan, offsets, i.scan, i.offsets)
          /\ capacity' = Grown(i.scan, i.offsets)
          /\ Outcome(i, "block")
    /\ UNCHANGED <<input, avx2, align, detached, previous>>
    /\ UNCHANGED <<read_to, last_block, doc>>
    /\ UNCHANGED <<walk, unescaper>>

\* the block has no selected byte left: move to the next block
BlockNext ==
    /\ pc = "block"
    /\ scan.simd.interest = {}
    /\ scan' = [scan EXCEPT !.input_offset = @ + BLOCK_SIZE]
    /\ pc' = "aligned"
    /\ UNCHANGED <<input, avx2, align, detached, previous>>
    /\ UNCHANGED <<capacity, read_to, last_block, offsets, fault, doc>>
    /\ UNCHANGED <<walk, unescaper, pushed_in>>

\* no aligned block is left: finish with the byte loop
TailBegin ==
    /\ pc = "aligned"
    /\ scan.input_offset > last_block
    /\ read_to' = scan.input_len
    /\ pc' = "tail"
    /\ UNCHANGED <<input, avx2, align, detached, previous>>
    /\ UNCHANGED <<capacity, last_block, scan, offsets, fault, doc>>
    /\ UNCHANGED <<walk, unescaper, pushed_in>>

\* scan_end: close the trailing number, check the table and return
ScanEnd ==
    /\ pc \in {"fallback", "tail"}
    /\ scan.input_offset >= read_to
    /\ LET i == scan_end_state(input, scan, offsets) IN
          /\ scan' = i.scan
          /\ offsets' = i.offsets
          /\ pushed_in' = pushed_in \o frames_pushed(scan, offsets, i.scan, i.offsets)
          /\ doc' = scan_end(input, scan, offsets)
          /\ capacity' = IF i.scan.error THEN Document_err_capacity
                         ELSE Grown(i.scan, i.offsets)
          /\ Outcome(i, "done")
    /\ UNCHANGED <<input, avx2, align, detached, previous>>
    /\ UNCHANGED <<read_to, last_block>>
    /\ UNCHANGED <<walk, unescaper>>

\* into_offsets and to_document_unchecked on the same input: the caller
\* goes on with the Document built from the offsets of the one scan returned
Reattach ==
    /\ pc = "done"
    /\ doc' = to_document_unchecked(into_offsets(doc))
    /\ pc' = "reattached"
    /\ UNCHANGED <<fault, walk>>
    /\ UNCHANGED <<scanning, unescaper>>

\* Document::detach and scan_trusted_attach: the caller detaches the Document
\* and scans another input with the storage it gets
Detach ==
    /\ pc = "done"
    /\ fault = "none"
    /\ input \in RescanInputs
    /\ detached' = detach(doc, capacity)
    /\ previous' = <<doc>>
    /\ input' \in RescanInputs
    /\ align' \in IF avx2 /\ Len(input') > VECTORIZATION_THRESHOLD THEN BlockOffsets ELSE {0}
    /\ pc' = "scan"
    /\ read_to' = 0
    /\ last_block' = 0
    /\ scan' = Scan_attach(<<>>, 0, 0)
    /\ offsets' = Offsets_attach(<<>>)
    /\ doc' = NoDocument
    /\ pushed_in' = <<>>
    /\ UNCHANGED <<avx2, capacity, fault, walk, unescaper>>

\* Document::as_map on the Document the caller holds
AsMap ==
    /\ pc \in {"done", "reattached"}
    /\ view' = as_map(doc)
    /\ pc' = "view"
    /\ UNCHANGED <<it, item, yielded, fault, doc>>
    /\ UNCHANGED <<scanning, unescaper>>

\* a get_unchecked! outside the table panics in a checked build; an unchecked
\* build reads an unspecified record, which the model walks no further
Get(indexes, next_pc) ==
    IF ReadsInTable(doc.offsets.elements, indexes)
    THEN pc' = next_pc /\ UNCHANGED fault
    ELSE pc' \in {"walk_panic", "exhausted"} /\ fault' = "oob_get"

\* Map::entries on the view held
MapEntries ==
    /\ pc = "view"
    /\ view.kind = "Map"
    /\ it' = entries(view)
    /\ yielded' = 0
    /\ Get({entries(view).key, entries(view).value}, "iterating")
    /\ UNCHANGED <<view, item, doc>>
    /\ UNCHANGED <<scanning, unescaper>>

\* Arr::iter on the view held
ArrIter ==
    /\ pc = "view"
    /\ view.kind = "Arr"
    /\ it' = iter(view)
    /\ yielded' = 0
    /\ Get({iter(view).value}, "iterating")
    /\ UNCHANGED <<view, item, doc>>
    /\ UNCHANGED <<scanning, unescaper>>

\* Iterator::next: an item is yielded, or the iterator is exhausted
IterNext ==
    /\ pc = "iterating"
    /\ yielded <= Len(doc.offsets.elements)
    /\ LET r == iterator_next(doc.offsets.elements, it) IN
          /\ it' = r.it
          /\ item' = r.item
          /\ yielded' = IF r.item = NoItem THEN yielded ELSE yielded + 1
          /\ Get(r.reads, IF r.item = NoItem THEN "exhausted" ELSE "iterating")
    /\ UNCHANGED <<view, doc>>
    /\ UNCHANGED <<scanning, unescaper>>

\* the caller goes on with the Map or Arr the iterator yielded
Descend ==
    /\ pc = "iterating"
    /\ item.view # NoView
    /\ view' = item.view
    /\ pc' = "view"
    /\ UNCHANGED <<it, item, yielded, fault, doc>>
    /\ UNCHANGED <<scanning, unescaper>>

Next ==
    \/ ScanReject
    \/ ScanFallback
    \/ ScanSimd
    \/ ScanBlockByte
    \/ AlignedBegin
    \/ BlockLoad
    \/ BlockDispatch
    \/ BlockNext
    \/ TailBegin
    \/ ScanEnd
    \/ Reattach
    \/ Detach
    \/ AsMap
    \/ MapEntries
    \/ ArrIter
    \/ IterNext
    \/ Descend

Spec == Init /\ [][Next]_vars

(***************************************************************************)
(* The classification of one block on its own: the 'aligned loop on an     *)
(* input that is one block, whose first byte is any byte value.            *)
(***************************************************************************)
Blocks ==
    {<<byte>> \o Repeat(<<filler>>, BLOCK_SIZE - 1) :
        byte \in 0..255, filler \in {QUOTE, BSLASH, CH_1}}

InitClassify ==
    /\ input \in Blocks
    /\ avx2 = TRUE
    /\ align = 0
    /\ detached = DetachedDocument_default
    /\ previous = <<>>
    /\ capacity = Capacity(DEFAULT_OFFSETS_CAPACITY, DEFAULT_STACK_CAPACITY)
    /\ pc = "aligned"
    /\ read_to = 0
    /\ last_block = 0
    /\ \E active_index \in {"Interest", "Quote"} :
          scan = [Scan_attach(<<>>, 0, BLOCK_SIZE) EXCEPT !.simd.active_index = active_index]
    /\ offsets = Offsets_attach(<<>>)
    /\ fault = "none"
    /\ doc = NoDocument
    /\ view = NoView
    /\ it = NoIterator
    /\ item = NoItem
    /\ yielded = 0
    /\ unescape = UnescapeFnInput(<<>>, 0, Unescape_Scan, <<>>)
    /\ escapes = {}
    /\ produced = <<>>
    /\ pushed_in = <<>>

NextClassify ==
    \/ BlockLoad
    \/ BlockNext

SpecClassify == InitClassify /\ [][NextClassify]_vars

(***************************************************************************)
(* The unescaper as a state machine: unescape_trusted on a string whose    *)
(* escapes are the two-byte ones, by the byte loop of unescape/fallback.rs *)
(* or, with avx2 and more than a block of input, by unescape/simd.rs       *)
(***************************************************************************)
MaxUnits == 3

\* the two-byte escapes, and bytes that stand for themselves: a letter, an
\* `n` without backslash and the two bytes of U+00E9
EscapeUnits ==
    {<<BSLASH, CH_n>>, <<BSLASH, 114>>, <<BSLASH, CH_t>>, <<BSLASH, 98>>, <<BSLASH, CH_f>>,
     <<BSLASH, QUOTE>>, <<BSLASH, BSLASH>>}
PlainUnits == {<<CH_a>>, <<CH_n>>, <<195, 169>>}

\* every string of at most MaxUnits escapes and plain characters
EscapedStrings == {Concat(u) : u \in SeqsUpTo(EscapeUnits \cup PlainUnits, MaxUnits)}

InitUnescape ==
    /\ input = <<>>
    /\ avx2 \in BOOLEAN
    /\ align = 0
    /\ detached = DetachedDocument_default
    /\ previous = <<>>
    /\ capacity = Capacity(DEFAULT_OFFSETS_CAPACITY, DEFAULT_STACK_CAPACITY)
    /\ pc = "unescape"
    /\ read_to = 0
    /\ last_block = 0
    /\ scan = Scan_attach(<<>>, 0, 0)
    /\ offsets = Offsets_attach(<<>>)
    /\ fault = "none"
    /\ doc = NoDocument
    /\ view = NoView
    /\ it = NoIterator
    /\ item = NoItem
    /\ yielded = 0
    /\ \E bytes \in EscapedStrings : unescape = UnescapeFnInput(bytes, 0, Unescape_Scan, <<>>)
    /\ escapes = {}
    /\ produced = <<>>
    /\ pushed_in = <<>>

\* unescape_simd: load the next block, while a whole block is left, and find
\* its backslashes
UnescapeBlockLoad ==
    /\ pc = "unescape"
    /\ unescape_vectorized(unescape.input, avx2)
    /\ unescape.scan.input_offset <= Len(unescape.input) - BLOCK_SIZE
    /\ escapes' = mask_escape(unescape.input, unescape.scan.input_offset)
    /\ pc' = "unescape_block"
    /\ UNCHANGED <<unescape, produced, fault, doc, scanning, walk>>

\* the 'block loop: the handler on the next backslash of the block
UnescapeBlockDispatch ==
    /\ pc = "unescape_block"
    /\ escapes # {}
    /\ unescape' = unescape_simd_dispatch(unescape, escapes)
    /\ escapes' = shift_from(escapes, trailing_zeros(escapes) + 1)
    /\ UNCHANGED <<pc, produced, fault, doc, scanning, walk>>

\* the block has no backslash left: on to the next block
UnescapeBlockNext ==
    /\ pc = "unescape_block"
    /\ escapes = {}
    /\ unescape' = [unescape EXCEPT !.scan.input_offset = @ + BLOCK_SIZE]
    /\ pc' = "unescape"
    /\ UNCHANGED <<escapes, produced, fault, doc, scanning, walk>>

\* unescape_block: one byte of the byte loop, which is the whole scan on the
\* fallback path and the bytes after the last whole block on the vector path
UnescapeBlockByte ==
    /\ pc = "unescape"
    /\ unescape_vectorized(unescape.input, avx2) =>
          unescape.scan.input_offset > Len(unescape.input) - BLOCK_SIZE
    /\ unescape.scan.input_offset < Len(unescape.input)
    /\ unescape' = unescape_block_byte(unescape)
    /\ UNCHANGED <<pc, escapes, produced, fault, doc, scanning, walk>>

\* unescape_end: flush what is left and return the string
UnescapeEnd ==
    /\ pc = "unescape"
    /\ unescape.scan.input_offset >= Len(unescape.input)
    /\ unescape' = unescape_end(unescape)
    /\ pc' = "unescaped"
    /\ UNCHANGED <<escapes, produced, fault, doc, scanning, walk>>

NextUnescape ==
    \/ UnescapeBlockLoad
    \/ UnescapeBlockDispatch
    \/ UnescapeBlockNext
    \/ UnescapeBlockByte
    \/ UnescapeEnd

SpecUnescape == InitUnescape /\ [][NextUnescape]_vars

(***************************************************************************)
(* The unescaper on strings with \u escapes, well formed and not: the      *)
(* strings of tests/valid.rs and tests/invalid.rs and their neighbours.    *)
(***************************************************************************)
\* `\u` and four bytes after it
CodeEscape(a, b, c, d) == <<BSLASH, 117, a, b, c, d>>

\* \u001f, \u58c1, the pair \ud83d \ude04, the largest high and low
\* halves \uDBFF and \uDFFF, \uFFFF, a signed \u+041, a \u with three
\* digits only, a lone backslash, a letter, the two bytes of U+00E9 and \"
CodeUnits ==
    {CodeEscape(48, 48, 49, 102), CodeEscape(53, 56, 99, 49),
     CodeEscape(100, 56, 51, 100), CodeEscape(100, 101, 48, 52),
     CodeEscape(68, 66, 70, 70), CodeEscape(68, 70, 70, 70),
     CodeEscape(70, 70, 70, 70), CodeEscape(43, 48, 52, 49),
     <<BSLASH, 117, 48, 48, 48>>, <<BSLASH>>, <<CH_a>>, <<195, 169>>, <<BSLASH, QUOTE>>}

\* the length of the run of backslashes that ends the string
RECURSIVE trailing_backslashes(_)
trailing_backslashes(bytes) ==
    IF bytes = <<>> \/ bytes[Len(bytes)] # BSLASH THEN 0
    ELSE 1 + trailing_backslashes(SubSeq(bytes, 1, Len(bytes) - 1))

\* the contract of unescape_trusted: the string is UTF-8 and does not end
\* with a backslash that is not itself escaped
Trusted(bytes) == from_utf8(bytes) /\ trailing_backslashes(bytes) % 2 = 0

\* every trusted string of at most MaxUnits units
CodeStrings == {b \in {Concat(u) : u \in SeqsUpTo(CodeUnits, MaxUnits)} : Trusted(b)}

InitUnescapeCodes ==
    /\ input = <<>>
    /\ avx2 \in BOOLEAN
    /\ align = 0
    /\ detached = DetachedDocument_default
    /\ previous = <<>>
    /\ capacity = Capacity(DEFAULT_OFFSETS_CAPACITY, DEFAULT_STACK_CAPACITY)
    /\ pc = "unescape"
    /\ read_to = 0
    /\ last_block = 0
    /\ scan = Scan_attach(<<>>, 0, 0)
    /\ offsets = Offsets_attach(<<>>)
    /\ fault = "none"
    /\ doc = NoDocument
    /\ view = NoView
    /\ it = NoIterator
    /\ item = NoItem
    /\ yielded = 0
    /\ \E bytes \in CodeStrings : unescape = UnescapeFnInput(bytes, 0, Unescape_Scan, <<>>)
    /\ escapes = {}
    /\ produced = <<>>
    /\ pushed_in = <<>>

\* the caller escapes the string it got and has it unescaped again
Reescape ==
    /\ pc = "unescaped"
    /\ \E ascii_only \in BOOLEAN :
          unescape' = UnescapeFnInput(json_escape(unescape.buf, ascii_only), 0, Unescape_Scan, <<>>)
    /\ produced' = <<unescape.buf>>
    /\ pc' = "unescape"
    /\ UNCHANGED <<escapes, fault, doc, scanning, walk>>

NextUnescapeCodes ==
    \/ UnescapeBlockLoad
    \/ UnescapeBlockDispatch
    \/ UnescapeBlockNext
    \/ UnescapeBlockByte
    \/ UnescapeEnd
    \/ Reescape

SpecUnescapeCodes == InitUnescapeCodes /\ [][NextUnescapeCodes]_vars

(***************************************************************************)
(* Properties of the scan and of the Document it returns.                  *)
(***************************************************************************)
\* scan has returned its Document
Returned == pc \in {"done", "reattached", "view", "iterating", "exhausted", "walk_panic"}

\* the caller is walking the Document
Walking == pc \in {"view", "iterating", "exhausted", "walk_panic"}

\* the scan of this input takes the vector path
UsesSimd ==
    /\ avx2
    /\ scan_begin(input).ok
    /\ scan_begin(input).end - scan_begin(input).start > VECTORIZATION_THRESHOLD

Slices(d) ==
    {d.offsets.elements[k].kind : k \in 1..Len(d.offsets.elements)}

\* C1: every String and Number record of the Document scan returns, for any
\* input, has a slice that starts at or before its end and ends within the
\* input.
C1_SlicesWithinInput ==
    Returned =>
        \A kind \in Slices(doc) :
            kind.tag \in {"Str", "Num"} =>
                /\ kind.offset >= 0
                /\ kind.len >= 0
                /\ kind.offset + kind.len <= Len(input)

C1_Witness ==
    /\ pc = "done"
    /\ ~IsValidJson(input)
    /\ \E kind \in Slices(doc) : kind.tag = "Str" /\ kind.len > 0
    /\ \E kind \in Slices(doc) : kind.tag = "Num" /\ kind.len > 0

\* C2: for any input, also one that makes the scanner push more records than
\* a 16-bit index can name, the scan does not panic and does not touch the
\* table outside it: the index patched when a container closes and the
\* previous-sibling index patched by push are within the table.
C2_NoPanicNoOutOfTable ==
    /\ pc # "panic"
    /\ fault # "oob_write"

\* C3: for the Document of any input, entries() and iter() on the root view
\* and on every view reached from it yield finitely many items, at most as
\* many as the table has records, and read the table only within it.
C3_IterationBounded ==
    Walking =>
        /\ pc # "walk_panic"
        /\ fault # "oob_get"
        /\ yielded <= Len(doc.offsets.elements)
        /\ ReadsInTable(doc.offsets.elements, {it.key, it.value})

C3_Witness ==
    /\ pc = "exhausted"
    /\ view.kind = "Arr"
    /\ view.start_from_offset > 1
    /\ yielded > 1
    /\ ~IsValidJson(input)

\* the structural bytes of a minified document: those outside its strings
RECURSIVE structural(_, _, _)
structural(b, k, in_str) ==
    IF ~InBounds(b, k) THEN <<>>
    ELSE LET c == At(b, k) IN
         IF in_str
         THEN CASE c = BSLASH -> structural(b, k + 2, TRUE)
                [] c = QUOTE -> structural(b, k + 1, FALSE)
                [] OTHER -> structural(b, k + 1, TRUE)
         ELSE CASE c = QUOTE -> structural(b, k + 1, TRUE)
                [] c \in {LBRACE, RBRACE, LBRACKET, RBRACKET, COMMA, COLON} ->
                     <<c>> \o structural(b, k + 1, FALSE)
                [] OTHER -> structural(b, k + 1, FALSE)

\* where the structural bytes of a minified document are
RECURSIVE structural_offsets(_, _, _)
structural_offsets(b, k, in_str) ==
    IF ~InBounds(b, k) THEN <<>>
    ELSE LET c == At(b, k) IN
         IF in_str
         THEN CASE c = BSLASH -> structural_offsets(b, k + 2, TRUE)
                [] c = QUOTE -> structural_offsets(b, k + 1, FALSE)
                [] OTHER -> structural_offsets(b, k + 1, TRUE)
         ELSE CASE c = QUOTE -> structural_offsets(b, k + 1, TRUE)
                [] c \in {LBRACE, RBRACE, LBRACKET, RBRACKET, COMMA, COLON} ->
                     <<k>> \o structural_offsets(b, k + 1, FALSE)
                [] OTHER -> structural_offsets(b, k + 1, FALSE)

Count(bytes, S) == Cardinality({k \in 1..Len(bytes) : bytes[k] \in S})

\* how deep the containers of a valid document nest, the root counted
nesting(bytes) ==
    LET st == structural(bytes, 0, FALSE)
        open(k) == Count(SubSeq(st, 1, k), {LBRACE, LBRACKET})
                   - Count(SubSeq(st, 1, k), {RBRACE, RBRACKET})
    IN IF st = <<>> THEN 0
       ELSE CHOOSE d \in 0..Len(st) :
                /\ \A k \in 1..Len(st) : open(k) <= d
                /\ \E k \in 1..Len(st) : open(k) = d

\* how many records a valid document has: a key for every colon and a value
\* or element for every comma and every container that is not empty
records(bytes) ==
    LET st == structural(bytes, 0, FALSE)
        at == structural_offsets(bytes, 0, FALSE)
    IN
    Count(st, {COMMA, COLON})
    + Cardinality({k \in 1..(Len(bytes) - 1) :
                      /\ k - 1 \in {at[j] : j \in 1..Len(at)}
                      /\ bytes[k] \in {LBRACE, LBRACKET}
                      /\ bytes[k + 1] \notin {RBRACE, RBRACKET}})

WithinCaps(bytes) == nesting(bytes) <= MAX_DEPTH /\ records(bytes) <= U16_MAX

\* C4: for a valid minified JSON object within the depth and record caps the
\* Document is not errored, and the value tree read from a Document that is
\* not errored equals the tree of the reference parse.
C4_ValueTreeEqualsReference ==
    (pc = "done" /\ IsValidJson(input)) =>
        /\ WithinCaps(input) => ~is_err(doc)
        /\ ~is_err(doc) => to_value(input, doc) = ref_parse(input).v

C4_Witness ==
    /\ pc = "done"
    /\ IsValidJson(input)
    /\ WithinCaps(input)
    /\ \E kind \in Slices(doc) : kind.tag = "Str" /\ kind.flag
    /\ \E kind \in Slices(doc) : kind.tag = "Map" /\ kind.n > 0
    /\ \E kind \in Slices(doc) : kind.tag = "Arr" /\ kind.n > 1
    /\ to_value(input, doc) = ref_parse(input).v

\* C5: for a valid input the vector scan ends in the scanner state and with
\* the table of the scalar-only scan: the same records, positions, next
\* links, error flag and root pair count, and the same Document.
C5_VectorEqualsScalar ==
    (pc = "done" /\ UsesSimd /\ IsValidJson(input)) =>
        LET f == scan_fallback_state(input, detached) IN
            /\ offsets = f.offsets
            /\ scan.error = f.scan.error
            /\ scan.escape = f.scan.escape
            /\ scan.input_offset = f.scan.input_offset
            /\ scan.stack = f.scan.stack
            /\ doc = scan_fallback(input, detached)

C5_Witness ==
    /\ pc = "done"
    /\ UsesSimd
    /\ IsValidJson(input)
    /\ ~is_err(doc)
    /\ \E kind \in Slices(doc) : kind.tag = "Str" /\ kind.flag
    /\ \E kind \in Slices(doc) : kind.tag = "Arr" /\ kind.n > 1

\* C6: for a valid input and every alignment of its first byte, that is
\* every length of the prefix the byte loop scans before the first aligned
\* block, the table is the one the scan builds at alignment 0.
C6_AlignmentIndependent ==
    (pc = "done" /\ UsesSimd /\ IsValidJson(input)) =>
        offsets = scan_simd_state(input, detached, 0).offsets

C6_Witness ==
    /\ pc = "done"
    /\ UsesSimd
    /\ IsValidJson(input)
    /\ prefix_read_to(Scan_attach(detached.stack, 1, 2), align) > 1
    /\ Len(offsets.elements) > 3
    /\ ~offsets.err

\* the inputs the preflight is to reject
Rejected(bytes) ==
    LET len == trim_end_len(bytes, Len(bytes)) IN
    \/ ~from_utf8(bytes)
    \/ len < 2
    \/ bytes[1] # LBRACE
    \/ bytes[len] # RBRACE

\* C7: when the input is not UTF-8, or trimmed of trailing white space is
\* shorter than 2 bytes, does not begin with `{` or does not end with `}`
\* (the empty input included), scan returns an errored Document with an
\* empty table and root pair count 0 and the scanner does not run.
C7_PreflightRejects ==
    (Rejected(input) /\ pc # "scan") =>
        /\ Returned
        /\ is_err(doc)
        /\ doc.offsets.elements = <<>>
        /\ doc.offsets.root_size_hint = 0
        /\ scan = Scan_attach(<<>>, 0, 0)
        /\ offsets = Offsets_attach(<<>>)
        /\ read_to = 0

C7_Witness ==
    /\ pc = "done"
    /\ is_err(doc)
    /\ from_utf8(input)
    /\ trim_end_len(input, Len(input)) >= 2
    /\ trim_end_len(input, Len(input)) < Len(input)
    /\ input[1] = LBRACE
    /\ input[trim_end_len(input, Len(input))] # RBRACE

\* C8: an errored Document has an empty table and root pair count 0, and
\* entries() on its root map yields nothing.
C8_ErroredDocumentIsEmpty ==
    (Returned /\ is_err(doc)) =>
        /\ doc.offsets.elements = <<>>
        /\ doc.offsets.root_size_hint = 0
        /\ Walking => (yielded = 0 /\ item = NoItem /\ pc # "walk_panic")
        /\ pc = "iterating" => iterator_next(doc.offsets.elements, it).item = NoItem

C8_Witness ==
    /\ pc = "exhausted"
    /\ is_err(doc)
    /\ ~Rejected(input)
    /\ Len(offsets.elements) > 1
    /\ yielded = 0

\* C9: when the scan reaches the end of its bounds inside a string, no
\* unescaped closing quote seen, the Document returned is errored.
C9_UnterminatedStringErrors ==
    (pc = "done" /\ scan.stack.active_map_arr.active_primitive.kind = "Str") =>
        /\ scan.error
        /\ is_err(doc)

C9_Witness ==
    /\ pc = "done"
    /\ scan.stack.active_map_arr.active_primitive.kind = "Str"
    /\ scan.stack.active_map_arr.active_primitive.input_offset < scan.input_len
    /\ Len(offsets.elements) > 0
    /\ is_err(doc)

\* the bytes match_primitive takes after a `:`, a `,` or a `[`
ValueStart ==
    {QUOTE, LBRACE, LBRACKET, RBRACE, RBRACKET, MINUS, CH_n, CH_t, CH_f} \cup Digits

\* the byte at k is a `:`, a `,` or a `[` and the byte after it starts no
\* value and ends no container
BadFollower(bytes, k) ==
    /\ InBounds(bytes, k + 1)
    /\ At(bytes, k) \in {COLON, COMMA, LBRACKET}
    /\ At(bytes, k + 1) \notin ValueStart

\* C10 as stated: in the scalar scan, a `:`, a `,` or a `[` anywhere in the
\* bounds followed by a byte that starts no value and ends no container sets
\* the error flag and makes the Document errored.
C10_AnyBadFollowerErrors ==
    (pc = "done" /\ ~UsesSimd /\ scan_begin(input).ok
     /\ \E k \in scan_begin(input).start..(scan_begin(input).end - 1) : BadFollower(input, k)) =>
        /\ scan.error
        /\ is_err(doc)

\* the byte loop is about to dispatch the byte under the cursor as a
\* structural `:`, `,` or `[`: no string is open, and for `:` and `[` no
\* number or literal either
DispatchesSeparator ==
    /\ pc = "fallback"
    /\ scan.input_offset < read_to
    /\ LET kind == scan.stack.active_map_arr.active_primitive.kind
           curr == At(input, scan.input_offset)
       IN \/ kind = "None" /\ curr \in {COLON, COMMA, LBRACKET}
          \/ kind \in {"Num", "Atom"} /\ curr = COMMA

\* C10: in the scalar scan, when a `:`, a `,` or a `[` the scanner dispatches
\* as a structural byte is followed by a byte that starts no value and ends
\* no container, the error flag is set; once set it stays set for the rest
\* of the scan, and a scan that ends with it set returns an errored Document.
C10_DispatchedBadFollowerErrors ==
    [][/\ (DispatchesSeparator /\ BadFollower(input, scan.input_offset)) => scan'.error
       /\ (scan.error /\ pc' # "scan") => scan'.error
       /\ (pc' = "done" /\ scan'.error) => is_err(doc')]_vars

C10_Witness ==
    /\ pc = "done"
    /\ ~UsesSimd
    /\ scan.error
    /\ is_err(doc)
    /\ input = err_internal_whitespace

\* the byte the next step of the scan dispatches, NoIndex when it dispatches
\* none: the byte loop hands every byte to its handler but those inside a
\* string, the 'block loop the lowest selected byte of the block
Dispatched ==
    CASE pc \in {"fallback", "prefix", "tail"} /\ scan.input_offset < read_to
         /\ InBounds(input, scan.input_offset) ->
            IF scan.stack.active_map_arr.active_primitive.kind = "Str"
               /\ At(input, scan.input_offset) \notin {QUOTE, BSLASH}
            THEN NoIndex
            ELSE At(input, scan.input_offset)
      [] pc = "block" /\ scan.simd.interest # {}
         /\ InBounds(input, scan.input_offset + trailing_zeros(active_indexes(scan.simd))) ->
            At(input, scan.input_offset + trailing_zeros(active_indexes(scan.simd)))
      [] OTHER -> NoIndex

\* a `}` or `]` is about to be dispatched while no frame is open
ClosesAtRoot ==
    /\ Dispatched \in {RBRACE, RBRACKET}
    /\ scan.stack.active_map_arr.active_primitive.kind # "Str"
    /\ scan.stack.bottom = <<>>

\* C11 as stated: a `}` or `]` dispatched while the frame stack is empty
\* sets the sticky error and leaves the offset table as it was, and the
\* Document of a scan that ends with the error set is errored.
C11_RootCloserLeavesTable ==
    [][/\ ClosesAtRoot => (scan'.error /\ offsets' = offsets)
       /\ (pc' = "done" /\ scan'.error) => is_err(doc')]_vars

\* C11: a `}` or `]` dispatched while the frame stack is empty sets the
\* sticky error; the closer first ends the number that is open, whose record
\* is pushed, and the table is otherwise left as it was: no record is
\* removed and no record's kind or position changes. The error stays set
\* for the rest of the scan and the Document of a scan that ends with it set
\* is errored.
C11_RootCloserPoisons ==
    [][/\ ClosesAtRoot =>
            LET prim == scan.stack.active_map_arr.active_primitive
                old == offsets.elements
                new == offsets'.elements
            IN /\ scan'.error
               /\ offsets'.err = offsets.err
               /\ offsets'.root_size_hint = offsets.root_size_hint
               /\ \A k \in 1..Len(old) :
                     /\ k <= Len(new)
                     /\ new[k].kind = old[k].kind
                     /\ new[k].position = old[k].position
               /\ IF prim.kind = "Num"
                  THEN /\ Len(new) = Len(old) + 1
                       /\ new[Len(new)].kind.tag = "Num"
                       /\ new[Len(new)].kind.offset = prim.input_offset
                  ELSE new = old
       /\ (scan.error /\ pc' # "scan") => scan'.error
       /\ (pc' = "done" /\ scan'.error) => is_err(doc')]_vars

\* a `]` at the root has just ended a number and poisoned the scan
C11_Witness ==
    /\ pc \in {"fallback", "tail"}
    /\ scan.error
    /\ scan.stack.bottom = <<>>
    /\ scan.input_offset > 1
    /\ At(input, scan.input_offset - 1) = RBRACKET
    /\ Len(offsets.elements) > 0
    /\ LET last == offsets.elements[Len(offsets.elements)].kind IN
          /\ last.tag = "Num"
          /\ last.offset + last.len = scan.input_offset - 1

\* how many containers are open inside the root map at the deepest point of
\* a valid document
nested(bytes) == nesting(bytes) - 1

\* C12: the number of simultaneously open nested containers never exceeds
\* MAX_DEPTH: the frames below the active one are at most MAX_DEPTH, an input
\* nesting exactly MAX_DEPTH containers in its root scans without error and
\* an input nesting one more is errored.
C12_DepthWithinMaxDepth ==
    /\ Len(scan.stack.bottom) <= MAX_DEPTH
    /\ (pc = "done" /\ input \in NestInputs /\ nested(input) = MAX_DEPTH) => ~is_err(doc)
    /\ (pc = "done" /\ input \in NestInputs /\ nested(input) = MAX_DEPTH + 1) => is_err(doc)

\* C13: a scan that has pushed exactly U16_MAX records and is not poisoned
\* returns a Document that is not errored, and a scan that has pushed more
\* records returns an errored Document: it does not panic, and the Document
\* it returns is errored.
C13_SizeCheck ==
    /\ (pc = "done" /\ Len(offsets.elements) = U16_MAX /\ ~scan.error) => ~is_err(doc)
    /\ Len(offsets.elements) > U16_MAX =>
          /\ pc # "panic"
          /\ pc = "done" => is_err(doc)

\* how many containers are open after the k-th structural byte
depth_after(st, k) ==
    Count(SubSeq(st, 1, k), {LBRACE, LBRACKET}) - Count(SubSeq(st, 1, k), {RBRACE, RBRACKET})

\* the structural byte that closes the container opened at p
closing(st, p) ==
    CHOOSE q \in (p + 1)..Len(st) :
        /\ depth_after(st, q) = depth_after(st, p) - 1
        /\ \A k \in (p + 1)..(q - 1) : depth_after(st, k) >= depth_after(st, p)

\* how many pairs or elements the container opened at p has in the text:
\* none when its closing byte is the next byte, else one more than the
\* commas directly in it
container_size(bytes, p) ==
    LET st == structural(bytes, 0, FALSE)
        at == structural_offsets(bytes, 0, FALSE)
        q == closing(st, p)
    IN IF at[q] = at[p] + 1 THEN 0
       ELSE 1 + Cardinality({k \in (p + 1)..(q - 1) :
                                st[k] = COMMA /\ depth_after(st, k) = depth_after(st, p)})

\* the root count and the count of every container record of the table are
\* those of the text: the j-th container record is the container the
\* (j + 1)-th opening byte opens, the first one opening the root
ContainerSizesMatch(bytes, d) ==
    LET st == structural(bytes, 0, FALSE)
        el == d.offsets.elements
        containers == {k \in 1..Len(el) : el[k].kind.tag \in {"Map", "Arr"}}
        opener(j) == CHOOSE p \in 1..Len(st) :
                        /\ st[p] \in {LBRACE, LBRACKET}
                        /\ Count(SubSeq(st, 1, p), {LBRACE, LBRACKET}) = j
        ord(k) == Cardinality({m \in containers : m <= k})
    IN /\ d.offsets.root_size_hint = container_size(bytes, 1)
       /\ Cardinality(containers) + 1 = Count(st, {LBRACE, LBRACKET})
       /\ \A k \in containers :
             /\ el[k].kind.n = container_size(bytes, opener(ord(k) + 1))
             /\ (el[k].kind.tag = "Map") = (st[opener(ord(k) + 1)] = LBRACE)

\* C14: for a valid input whose Document is not errored, the count held by
\* the root map and by every container record is the number of pairs or
\* elements the container has in the text; entries() and iter() on a view
\* yield exactly size_hint() items before they are exhausted, none for an
\* empty container, and they yield the records in table order, which is the
\* order of the source.
C14_IteratorsYieldEverything ==
    [][(Walking' /\ IsValidJson(input') /\ ~is_err(doc')) =>
          /\ pc = "done" => ContainerSizesMatch(input', doc')
          /\ pc' = "iterating" => yielded' <= view'.size_hint
          /\ pc' = "exhausted" => yielded' = view'.size_hint
          /\ (pc = "iterating" /\ pc' = "iterating" /\ it.value # NoIndex
              /\ it'.value # NoIndex) =>
                /\ it'.value > it.value
                /\ it.kind = "Entries" => (it'.key > it.key /\ it'.key < it'.value)]_vars

C14_Witness ==
    /\ pc = "exhausted"
    /\ IsValidJson(input)
    /\ ~is_err(doc)
    /\ view.kind = "Map"
    /\ view.start_from_offset > 0
    /\ view.size_hint = 2
    /\ yielded = 2
    /\ \E kind \in Slices(doc) : kind.tag = "Arr" /\ kind.n = 0

\* the iterator held is an Entries whose next key record is not a String
KeyIsNoString ==
    /\ pc = "iterating"
    /\ it.kind = "Entries"
    /\ it.key # NoIndex
    /\ it.value # NoIndex
    /\ ReadsInTable(doc.offsets.elements, {it.key, it.value})
    /\ doc.offsets.elements[it.key + 1].kind.tag # "Str"

\* C15: when the record on the key thread of an Entries iterator is not a
\* String, next() yields nothing and leaves the iterator without a key and a
\* value record, so that every later next() yields nothing either, whatever
\* records are left on the two threads.
C15_EntriesStopAtNonStringKey ==
    [][(KeyIsNoString /\ pc' # "view") =>
          /\ pc' = "exhausted"
          /\ item' = NoItem
          /\ yielded' = yielded
          /\ it' = Iterator("Entries", NoIndex, NoIndex)
          /\ iterator_next(doc.offsets.elements, it').item = NoItem]_vars

\* entries() has yielded a pair and stopped at a number key, a pair left
C15_Witness ==
    /\ pc = "exhausted"
    /\ input = number_key_after_entry
    /\ view.kind = "Map"
    /\ view.size_hint = 3
    /\ yielded = 1
    /\ it = Iterator("Entries", NoIndex, NoIndex)
    /\ doc.offsets.elements[3].kind.tag = "Num"
    /\ doc.offsets.elements[3].next = 4

\* a backslash lies in the slice of the record
HasBackslash(bytes, kind) ==
    \E k \in 1..kind.len : bytes[kind.offset + k] = BSLASH

\* the String records the scan has pushed
StrRecords ==
    {kind \in {offsets.elements[k].kind : k \in 1..Len(offsets.elements)} :
        kind.tag = "Str" /\ SliceInBounds(input, kind)}

\* C16: every String record the scan has pushed, in the byte loop or in the
\* block loop, has its escaped flag set exactly when a backslash lies
\* between its quotes; to_unescaped borrows the raw slice of a string
\* without backslash and returns the unescaper's output for one with.
C16_EscapedFlagIffBackslash ==
    \A kind \in StrRecords :
        /\ kind.flag = HasBackslash(input, kind)
        /\ ~HasBackslash(input, kind) =>
              to_unescaped(input, kind) = [cow |-> "Borrowed", str |-> as_str(input, kind)]
        /\ HasBackslash(input, kind) =>
              to_unescaped(input, kind) =
                  [cow |-> "Owned", str |-> unescape_trusted(as_str(input, kind))]

\* the vector scan of a valid document has pushed a string with an escape
\* and one without
C16_Witness ==
    /\ pc = "done"
    /\ UsesSimd
    /\ ~is_err(doc)
    /\ \E kind \in StrRecords : kind.flag /\ to_unescaped(input, kind).str # as_str(input, kind)
    /\ \E kind \in StrRecords : ~kind.flag /\ kind.len > 0

\* scan on storage d: the scanner state and the table when the scan of an
\* accepted input ends, by the path scan chooses
scan_state(bytes, d, has_avx2, al) ==
    LET bounds == scan_begin(bytes) IN
    IF has_avx2 /\ bounds.end - bounds.start > VECTORIZATION_THRESHOLD
    THEN scan_simd_state(bytes, d, al)
    ELSE scan_fallback_state(bytes, d)

\* C17: a scan that uses the DetachedDocument got by detaching the Document
\* of an earlier scan ends with the table, the error flag, the root pair
\* count and the frame stack of the scan of the same input with fresh
\* storage, and returns a Document with the same table, error flag and root
\* pair count: nothing an earlier scan left is seen.
C17_ReuseEqualsFresh ==
    (pc = "done" /\ previous # <<>>) =>
        IF scan_begin(input).ok
        THEN LET f == scan_state(input, DetachedDocument_default, avx2, align) IN
             /\ offsets = f.offsets
             /\ scan.error = f.scan.error
             /\ scan.stack = f.scan.stack
             /\ doc.offsets = IF f.scan.error THEN Document_err.offsets ELSE f.offsets
        ELSE doc.offsets = Document_err.offsets

\* the Document detached had two frames left on its stack and records in
\* its table, and the scan that reuses its storage pushes records
C17_Witness ==
    /\ pc = "done"
    /\ previous # <<>>
    /\ Len(previous[1].detached_stack) = 2
    /\ Len(previous[1].offsets.elements) > 2
    /\ input = MutationBase
    /\ UsesSimd
    /\ ~is_err(doc)
    /\ Len(doc.offsets.elements) > 3

\* C18: detach on the Document a scan returned gives an offset vector and a
\* stack vector that are both empty and whose capacities are at least those
\* of the vectors handed to that scan.
C18_DetachKeepsCapacity ==
    pc = "done" =>
        LET d == detach(doc, capacity) IN
            /\ d.offsets = <<>>
            /\ d.stack = <<>>
            /\ d.offsets_capacity >= detached.offsets_capacity
            /\ d.stack_capacity >= detached.stack_capacity

\* C19: the Document built by to_document_unchecked from the offsets that
\* into_offsets took out of a Document, on the same input, has the records,
\* the error flag and the root pair count of that Document, and the same
\* value tree.
C19_ReattachKeepsDocument ==
    [][(pc = "done" /\ pc' = "reattached") =>
          /\ doc'.offsets.elements = doc.offsets.elements
          /\ is_err(doc') = is_err(doc)
          /\ doc'.offsets.root_size_hint = doc.offsets.root_size_hint
          /\ to_value(input, doc') = to_value(input, doc)]_vars

\* the Document of a vector scan of a valid input has been taken apart and
\* built again
C19_Witness ==
    /\ pc = "reattached"
    /\ UsesSimd
    /\ IsValidJson(input)
    /\ ~is_err(doc)
    /\ doc.offsets.root_size_hint > 0
    /\ Len(doc.offsets.elements) > 3
    /\ to_value(input, doc) = ref_parse(input).v

\* the byte a two-byte escape stands for
escaped_byte(b) ==
    CASE b = CH_n -> 10
      [] b = 114 -> 13
      [] b = CH_t -> 9
      [] b = 98 -> 8
      [] b = CH_f -> 12
      [] b = QUOTE -> 34
      [] b = BSLASH -> 92

\* a string read from the left: a backslash and the byte after it give one
\* byte, every other byte gives itself
RECURSIVE simple_unescaped(_)
simple_unescaped(bytes) ==
    IF bytes = <<>> THEN <<>>
    ELSE IF bytes[1] = BSLASH
         THEN <<escaped_byte(bytes[2])>> \o simple_unescaped(SubSeq(bytes, 3, Len(bytes)))
         ELSE <<bytes[1]>> \o simple_unescaped(SubSeq(bytes, 2, Len(bytes)))

\* C20: for a string whose only escapes are \n, \r, \t, \b, \f, \" and \\
\* the unescaper returns the string with each escape replaced by the byte it
\* stands for (a pair of backslashes by one) and every other byte copied in
\* order; a string without backslash is returned as it is; no copy leaves
\* the input or the buffer.
C20_SimpleEscapes ==
    /\ unescape.fault = "none"
    /\ pc = "unescaped" =>
          /\ unescape.buf = simple_unescaped(unescape.input)
          /\ (\A k \in 1..Len(unescape.input) : unescape.input[k] # BSLASH) =>
                unescape.buf = unescape.input

\* an escaped quote, and four backslashes that have become two
C20_Witness ==
    /\ pc = "unescaped"
    /\ unescape.input = <<BSLASH, QUOTE, BSLASH, BSLASH, BSLASH, BSLASH>>
    /\ unescape.buf = <<QUOTE, BSLASH, BSLASH>>

(***************************************************************************)
(* Properties of the unescaper on \u escapes.                              *)
(***************************************************************************)
\* the next step runs interest_unescape on the backslash at offset k: the
\* byte loop stands on it, or it is the lowest backslash left in the block
AtEscape(k) ==
    \/ /\ pc = "unescape_block"
       /\ escapes # {}
       /\ k = unescape.scan.input_offset + trailing_zeros(escapes)
    \/ /\ pc = "unescape"
       /\ ~(/\ unescape_vectorized(unescape.input, avx2)
            /\ unescape.scan.input_offset <= Len(unescape.input) - BLOCK_SIZE)
       /\ k = unescape.scan.input_offset
       /\ k < Len(unescape.input)
       /\ At(unescape.input, k) = BSLASH

\* the code unit written at offset k as `\u` and four hexadecimal digits,
\* or -1 when that is not what stands there
CodeUnitAt(bytes, k) ==
    IF /\ k + 5 < Len(bytes)
       /\ At(bytes, k) = BSLASH
       /\ At(bytes, k + 1) = 117
       /\ \A d \in 2..5 : HexValue(At(bytes, k + d)) >= 0
    THEN (HexValue(At(bytes, k + 2)) * 4096) + (HexValue(At(bytes, k + 3)) * 256)
         + (HexValue(At(bytes, k + 4)) * 16) + HexValue(At(bytes, k + 5))
    ELSE -1

\* the step copies what was waiting before the backslash at k, appends
\* `emitted`, and leaves the first `taken` bytes of the escape behind
EscapeAtGives(k, emitted, taken) ==
    /\ unescape'.buf =
          unescape.buf \o SubSeq(unescape.input, unescape.scan.start + 1, k) \o emitted
    /\ unescape'.scan.start = k + taken

\* the next step handles an unescaped backslash that begins a \uXXXX escape
HandlesCodeUnit(k) ==
    /\ AtEscape(k)
    /\ ~unescape.scan.escape
    /\ CodeUnitAt(unescape.input, k) >= 0

\* C21 as stated: a \uXXXX whose code unit is no surrogate half puts the
\* UTF-8 of that scalar in the output and nothing else; a low half that comes
\* after a high half puts the UTF-8 of
\* 0x10000 + (high - 0xD800) * 0x400 + (low - 0xDC00) there; a high half
\* puts nothing there.
C21_CodeUnitsDecoded ==
    [][\A k \in 0..Len(unescape.input) :
          HandlesCodeUnit(k) =>
             LET first == unescape.scan.first_surrogate
                 c == CodeUnitAt(unescape.input, k)
             IN
             /\ c \notin 55296..57343 => EscapeAtGives(k, encode_utf8(c), 6)
             /\ (first \in 55296..56319 /\ c \in 56320..57343) =>
                   EscapeAtGives(k, encode_utf8(65536 + ((first - 55296) * 1024) + (c - 56320)), 6)
             /\ c \in 55296..56319 => EscapeAtGives(k, <<>>, 6)]_vars

\* C21, amended: the first and the last part hold when no surrogate half is
\* waiting for its pair.  A half that waits is taken by the next \uXXXX
\* whatever its code unit: below 0xDC00 that escape is not decoded, the half
\* is forgotten, `\u` is dropped and the four digits stay to be copied as
\* text.  In both cases the output of the whole string is UTF-8.
C21_CodeUnitsDecodedUnlessPending ==
    [][\A k \in 0..Len(unescape.input) :
          HandlesCodeUnit(k) =>
             LET first == unescape.scan.first_surrogate
                 c == CodeUnitAt(unescape.input, k)
             IN
             /\ (first = NoSurrogate /\ c \notin 55296..57343) =>
                   /\ EscapeAtGives(k, encode_utf8(c), 6)
                   /\ unescape'.scan.first_surrogate = NoSurrogate
             /\ (first \in 55296..56319 /\ c \in 56320..57343) =>
                   /\ EscapeAtGives(k, encode_utf8(65536 + ((first - 55296) * 1024) + (c - 56320)), 6)
                   /\ unescape'.scan.first_surrogate = NoSurrogate
             /\ (first = NoSurrogate /\ c \in 55296..56319) =>
                   /\ EscapeAtGives(k, <<>>, 6)
                   /\ unescape'.scan.first_surrogate = c
             /\ (first # NoSurrogate /\ c < 56320) =>
                   /\ EscapeAtGives(k, <<>>, 2)
                   /\ unescape'.scan.first_surrogate = NoSurrogate]_vars

\* the pair of tests/valid.rs has become the four bytes of U+1F604
C21_Witness ==
    /\ pc = "unescaped"
    /\ unescape.input = CodeEscape(100, 56, 51, 100) \o CodeEscape(100, 101, 48, 52)
    /\ unescape.buf = <<240, 159, 152, 132>>

\* C22: on a UTF-8 string that does not end with an unescaped backslash,
\* whatever its escapes (cut short, with bytes that are no hexadecimal
\* digits, unknown, or surrogate halves without their pair), the unescaper
\* reads and copies inside the input and the buffer only, and the string it
\* returns is UTF-8.
C22_UnescapeIsSafe ==
    Trusted(unescape.input) =>
        /\ unescape.fault = "none"
        /\ pc = "unescaped" => from_utf8(unescape.buf)

\* a \u whose four bytes end in the middle of a character, after a high half
\* that never gets its pair: the digits and the character come out as text
C22_Witness ==
    /\ pc = "unescaped"
    /\ unescape.input = CodeEscape(100, 56, 51, 100) \o <<BSLASH, 117, 48, 48, 48, 195, 169>>
    /\ unescape.buf = <<48, 48, 48, 195, 169>>
    /\ unescape.fault = "none"

\* C23: a string that unescape returned, escaped by a reference JSON escaper
\* (with or without \uXXXX for the characters above U+007F) and unescaped
\* again, comes back byte for byte.
C23_RoundTrip ==
    (pc = "unescaped" /\ produced # <<>>) => unescape.buf = produced[1]

\* U+00E9, a quote and U+001F have gone through \u00e9\"\u001f and back
C23_Witness ==
    /\ pc = "unescaped"
    /\ produced = <<<<195, 169, QUOTE, 31>>>>
    /\ unescape.input = CodeEscape(48, 48, 101, 57) \o <<BSLASH, QUOTE>> \o CodeEscape(48, 48, 49, 102)
    /\ unescape.buf = <<195, 169, QUOTE, 31>>

\* C24: from the step that sets the error flag to the end of that scan no
\* step clears it, whatever bytes are dispatched after it and on whichever
\* path; the Document that scan returns is errored and stays so for the
\* caller.
C24_ErrorIsSticky ==
    [][/\ (scan.error /\ pc' # "scan") => scan'.error
       /\ (scan.error /\ pc' = "done") => is_err(doc')
       /\ (Returned /\ is_err(doc) /\ pc' # "scan") => is_err(doc')]_vars

\* the `]` at the root of {"a"],42} set the flag; the scan went on, pushed
\* the record of 42 and returned an errored Document
C24_Witness ==
    /\ pc = "done"
    /\ input = err_root_level_arr_terminate
    /\ scan.error
    /\ Len(offsets.elements) = 2
    /\ offsets.elements[2].kind.tag = "Num"
    /\ is_err(doc)

\* str::is_char_boundary on the input
IsCharBoundary(bytes, k) == k = 0 \/ k >= Len(bytes) \/ At(bytes, k) \notin 128..191

\* C25: in the Document of any input every String slice starts right after a
\* quote and ends at a quote, every Number slice starts at a digit or a minus
\* sign and ends at a `,`, a `}` or a `]` (the outer closing brace where the
\* number is the last thing in the document); so both ends of every slice
\* are character boundaries of the input, and the bytes of the slice, which
\* as_raw() and Kind::Num hand out as a str, are UTF-8.
C25_SlicesAreUtf8 ==
    Returned =>
        \A kind \in Slices(doc) :
            kind.tag \in {"Str", "Num"} =>
                LET first == kind.offset
                    last == kind.offset + kind.len
                IN /\ first >= 0 /\ first <= last /\ last < Len(input)
                   /\ kind.tag = "Str" =>
                         /\ first > 0 /\ At(input, first - 1) = QUOTE
                         /\ At(input, last) = QUOTE
                   /\ kind.tag = "Num" =>
                         /\ At(input, first) \in Digits \cup {MINUS}
                         /\ At(input, last) \in {COMMA, RBRACE, RBRACKET}
                   /\ IsCharBoundary(input, first)
                   /\ IsCharBoundary(input, last)
                   /\ from_utf8(SubSeq(input, first + 1, last))

\* a key and an escaped string with characters of two and three bytes, and
\* a number that runs into one
C25_Witness ==
    /\ Returned
    /\ ~is_err(doc)
    /\ \E kind \in Slices(doc) :
          /\ kind.tag \in {"Str", "Num"}
          /\ \E k \in kind.offset..(kind.offset + kind.len - 1) : At(input, k) >= 128
    /\ input \in {utf8_strings, utf8_after_number}
    /\ UsesSimd

(***************************************************************************)
(* Properties of the sibling links.                                        *)
(***************************************************************************)
\* the records after x (table positions from 1) pushed into the frame of x
\* with the position of x
later_siblings(elements, f, x) ==
    {y \in (x + 1)..Len(elements) : f[y] = f[x] /\ elements[y].position = elements[x].position}

\* C26: in a Document that is not errored the next of a record, when
\* present, names the first later record that was pushed into the same
\* frame with the same position, so no link leaves its container; a record
\* with no such later record has no next.
C26_LinksStayInFrame ==
    (pc \in {"done", "reattached"} /\ ~is_err(doc)) =>
        LET elements == doc.offsets.elements
            f == pushed_in
        IN /\ Len(f) = Len(elements)
           /\ \A x \in 1..Len(elements) :
                 LET later == later_siblings(elements, f, x)
                     next == elements[x].next
                 IN /\ next # NoIndex =>
                          /\ next + 1 \in later
                          /\ \A y \in later : next + 1 <= y
                    /\ later = {} => next = NoIndex

\* a link that passes over the records of a nested container, in a table
\* built by the vector scan
C26_Witness ==
    /\ pc = "done"
    /\ ~is_err(doc)
    /\ UsesSimd
    /\ LET elements == doc.offsets.elements
           f == pushed_in
       IN \E x \in 1..Len(elements) :
             /\ elements[x].next # NoIndex
             /\ elements[x].next + 1 > x + 1
             /\ \E y \in (x + 1)..elements[x].next : f[y] # f[x]
             /\ f[x] # 0

(***************************************************************************)
(* Properties of the counts.                                               *)
(***************************************************************************)
\* the table indexes the iterator of a view reads first
first_reads(v) ==
    IF v.kind = "Map"
    THEN {entries(v).key, entries(v).value} \ {NoIndex}
    ELSE {iter(v).value} \ {NoIndex}

\* C27: in a Document that is not errored a container record at index i
\* with a count that is not zero has a record at index i + 1, and a Map
\* record one at index i + 2 too; a root count that is not zero comes with
\* at least two records; so the first reads of entries() and iter() on the
\* view of any record, and on the root, are inside the table.
C27_FirstChildInTable ==
    (Returned /\ ~is_err(doc)) =>
        LET elements == doc.offsets.elements IN
        /\ \A x \in 1..Len(elements) :
              LET i == x - 1
                  kind == elements[x].kind
              IN (kind.tag \in {"Map", "Arr"} /\ kind.n # 0) =>
                    /\ i + 1 < Len(elements)
                    /\ kind.tag = "Map" => i + 2 < Len(elements)
                    /\ \A k \in first_reads(to_element(elements[x], i).view) :
                          k < Len(elements)
        /\ doc.offsets.root_size_hint # 0 =>
              /\ Len(elements) >= 2
              /\ \A k \in first_reads(as_map(doc)) : k < Len(elements)

\* a Map with entries as the last value of the root, in a Document of the
\* vector scan: its first pair is the last two records of the table
C27_Witness ==
    /\ Returned
    /\ ~is_err(doc)
    /\ UsesSimd
    /\ doc.offsets.root_size_hint # 0
    /\ LET elements == doc.offsets.elements IN
       \E x \in 1..Len(elements) :
          /\ elements[x].kind.tag = "Map"
          /\ elements[x].kind.n # 0
          /\ x + 2 = Len(elements)
          /\ first_reads(to_element(elements[x], x - 1).view) = {x, x + 1}

\* C28: in every Document scan returns, the next of a record, when present,
\* is greater than the record's own index and less than the table length.
C28_NextAheadInTable ==
    Returned =>
        LET elements == doc.offsets.elements IN
        \A x \in 1..Len(elements) :
           LET i == x - 1
               next == elements[x].next
           IN next # NoIndex => (next > i /\ next < Len(elements))

\* the first key of the root linked to the last key, which is the record
\* before the last one, in a Document of the vector scan
C28_Witness ==
    /\ pc = "done"
    /\ UsesSimd
    /\ LET elements == doc.offsets.elements IN
       /\ Len(elements) >= 4
       /\ elements[1].next = Len(elements) - 2
       /\ \E x \in 2..Len(elements) : elements[x].next = Len(elements) - 1

(***************************************************************************)
(* Properties of the quotes inside a string.                               *)
(***************************************************************************)
\* this step hands the byte at k to its handler: the byte loop takes the
\* byte at input_offset, the block loop the lowest selected byte of the block
Dispatches(k) ==
    /\ scan' # scan
    /\ \/ /\ pc \in {"fallback", "prefix", "tail"}
          /\ scan.input_offset < read_to
          /\ k = scan.input_offset
       \/ /\ pc = "block"
          /\ scan.simd.interest # {}
          /\ k = scan.input_offset + trailing_zeros(active_indexes(scan.simd))

\* the number of consecutive backslashes right before the byte at k
backslashes_before(bytes, k) == trailing_backslashes(SubSeq(bytes, 1, k))

\* C29: a quote taken inside a string closes it if and only if the run of
\* backslashes right before it is even (or empty): then the String record
\* is pushed; after an odd run the quote only clears the escape bit, marks
\* the string escaped and the string goes on.  A string still open at
\* scan_end, as one whose last quote is escaped is, gives an errored
\* Document.
C29_QuoteClosesAfterEvenRun ==
    [][/\ \A k \in 0..(Len(input) - 1) :
             LET prim == scan.stack.active_map_arr.active_primitive
                 after == scan'.stack.active_map_arr.active_primitive
                 even == backslashes_before(input, k) % 2 = 0
             IN (Dispatches(k) /\ At(input, k) = QUOTE /\ prim.kind = "Str") =>
                   /\ after.kind = "None" <=> even
                   /\ even =>
                         /\ Len(offsets'.elements) = Len(offsets.elements) + 1
                         /\ offsets'.elements[Len(offsets'.elements)].kind =
                               Str(prim.input_offset, k - prim.input_offset, prim.escaped)
                   /\ ~even =>
                         /\ after = [prim EXCEPT !.escaped = TRUE]
                         /\ scan.escape /\ ~scan'.escape
                         /\ offsets' = offsets
       /\ (pc \in {"fallback", "tail"} /\ pc' = "done"
             /\ scan.stack.active_map_arr.active_primitive.kind = "Str") => is_err(doc')
      ]_vars

\* the input of the test err_incomplete_string_escape after its last quote,
\* which follows three backslashes: the string is still open
C29_Witness ==
    /\ input = err_incomplete_string_escape
    /\ scan.input_offset = Len(input) - 1
    /\ At(input, Len(input) - 2) = QUOTE
    /\ backslashes_before(input, Len(input) - 2) = 3
    /\ scan.stack.active_map_arr.active_primitive.kind = "Str"
    /\ scan.stack.active_map_arr.active_primitive.escaped
    /\ ~scan.escape
    /\ Len(offsets.elements) = 1

(***************************************************************************)
(* Properties of the lookahead.                                            *)
(***************************************************************************)
\* the handler call of this step, when it hands a byte to its handler
Handled ==
    IF pc = "block" THEN block_dispatch(input, scan, offsets)
    ELSE scan_block_byte(input, scan, offsets)

\* C30: a handler that looks one byte ahead does so on a `:`, a `,`, a `[`
\* or a backslash, and reads the byte after it, at an index that is at most
\* the index of the outer closing brace, which is where the scan bounds
\* end (scan_begin leaves both outer braces out of them), and so inside
\* the input; this holds in the byte loop and in the block loop.
C30_LookaheadWithinBounds ==
    [][\A k \in 0..(Len(input) - 1) :
          (Dispatches(k) /\ Handled.peeked # NoIndex) =>
             /\ Handled.peeked = k + 1
             /\ At(input, k) \in {COLON, COMMA, LBRACKET, BSLASH}
             /\ Handled.peeked <= scan.input_len
             /\ At(input, scan.input_len) = RBRACE
             /\ InBounds(input, Handled.peeked)
      ]_vars

\* the vector scan has handled a comma that is the last byte before the
\* outer closing brace, in the mutated document: its lookahead read the
\* brace itself
C30_Witness ==
    /\ UsesSimd
    /\ input \in MutatedInputs
    /\ pc \in {"aligned", "tail"}
    /\ scan.input_offset >= scan.input_len
    /\ At(input, scan.input_len - 1) = COMMA
    /\ At(input, scan.input_len) = RBRACE
    /\ scan.stack.active_map_arr.active_primitive.kind = "None"
    /\ fault = "none"

(***************************************************************************)
(* Properties of closing a container.                                      *)
(***************************************************************************)
\* this step closes a container while the stack is not empty: the byte at k
\* is handed to its handler and a frame is popped
Closes(k) ==
    /\ Dispatches(k)
    /\ Len(scan'.stack.bottom) < Len(scan.stack.bottom)

\* the table when end is called on the byte at k: interest_map_end and
\* interest_arr_end first push the number that was running, if one was
table_at_end(k) ==
    interest_num_end(ScanFnInput(input, scan, offsets, k, At(input, k))).offsets.elements

\* the records pushed into the active frame when end is called on the byte at k
children_at_end(k) ==
    Cardinality({x \in 1..Len(pushed_in) :
                    pushed_in[x] = scan.stack.active_map_arr.start_from_offset})
    + (Len(table_at_end(k)) - Len(offsets.elements))

\* C31: closing a container while the stack is not empty changes one record
\* only, the placeholder pushed when the container was opened, at index
\* start - 1, and only its kind: Arr(children) for `]` and Map(children >> 1)
\* for `}`, children being the number of records pushed into the frame.
C31_CloseWritesPlaceholder ==
    [][\A k \in 0..(Len(input) - 1) :
          Closes(k) =>
             LET start == scan.stack.active_map_arr.start_from_offset
                 table == table_at_end(k)
                 children == children_at_end(k)
                 kind == IF At(input, k) = RBRACKET THEN Arr(children)
                         ELSE Map(children \div 2)
             IN /\ At(input, k) \in {RBRACE, RBRACKET}
                /\ start - 1 >= 0
                /\ start - 1 < Len(table)
                /\ table[start].kind \in {Map(0), Arr(0)}
                /\ offsets'.elements = [table EXCEPT ![start] = [@ EXCEPT !.kind = kind]]
      ]_vars

\* the byte at k closes the active frame with the closer of the other kind
\* of container: a map frame with `]` or an array frame with `}`
Mismatched(k) ==
    LET parts == scan.stack.active_map_arr.parts IN
    \/ parts = <<"Key", "Value">> /\ At(input, k) = RBRACKET
    \/ parts = <<"Elem", "Elem">> /\ At(input, k) = RBRACE

\* C32: closing a map frame with `]` or an array frame with `}` leaves the
\* error flag as it was, pops the frame and writes into the container's
\* placeholder the kind of the closing byte, Arr for `]` and Map for `}`,
\* whatever the placeholder was opened as; and the caller walks the
\* Document without a panic and without a read outside the table.
C32_MismatchedCloseIsQuiet ==
    [][/\ \A k \in 0..(Len(input) - 1) :
             (Closes(k) /\ Mismatched(k)) =>
                LET start == scan.stack.active_map_arr.start_from_offset
                    bottom == scan.stack.bottom
                    table == table_at_end(k)
                    opened == IF At(input, k) = RBRACKET THEN "Map" ELSE "Arr"
                    closed == IF At(input, k) = RBRACKET THEN "Arr" ELSE "Map"
                IN /\ scan'.error = scan.error
                   /\ scan'.stack.bottom = SubSeq(bottom, 1, Len(bottom) - 1)
                   /\ scan'.stack.active_map_arr = bottom[Len(bottom)]
                   /\ start - 1 >= 0
                   /\ start - 1 < Len(table)
                   /\ table[start].kind.tag = opened
                   /\ offsets'.elements[start].kind.tag = closed
       /\ Walking' =>
             /\ pc' # "walk_panic"
             /\ fault' # "oob_get"
             /\ ReadsInTable(doc'.offsets.elements, {it'.key, it'.value})
      ]_vars

(***************************************************************************)
(* Properties of scan_end.                                                 *)
(***************************************************************************)
\* C33: when the scan bounds end while a number is running, scan_end pushes
\* a Number record whose slice starts at the number's first byte and ends
\* right before the outer closing brace; in the Document returned it is the
\* last record, and the pair count of the root (the count of the frame left
\* active) includes it.
C33_TrailingNumber ==
    [][(/\ pc \in {"fallback", "tail"}
        /\ pc' \in {"done", "panic"}
        /\ scan.stack.active_map_arr.active_primitive.kind = "Num") =>
          LET frame == scan.stack.active_map_arr
              prim == frame.active_primitive
              new == offsets'.elements
              record == new[Len(new)]
          IN /\ Len(new) = Len(offsets.elements) + 1
             /\ record.kind = Num(prim.input_offset, scan.input_len - prim.input_offset)
             /\ record.position = part_position(frame)
             /\ prim.input_offset < scan.input_len
             /\ At(input, prim.input_offset + record.kind.len) = RBRACE
             /\ prim.input_offset + record.kind.len = trim_end_len(input, Len(input)) - 1
             /\ scan'.stack.active_map_arr.active_primitive.kind = "None"
             /\ ~is_err(doc') =>
                   /\ doc'.offsets.elements = new
                   /\ doc'.offsets.root_size_hint = (frame.len + 1) \div 2
      ]_vars

\* a valid document of two pairs whose last value is a number, scanned on
\* the vector path: the number is the last record and the root has 2 pairs
C33_Witness ==
    /\ pc = "done"
    /\ UsesSimd
    /\ IsValidJson(input)
    /\ ~is_err(doc)
    /\ doc.offsets.root_size_hint = 2
    /\ LET elements == doc.offsets.elements
           last == elements[Len(elements)]
       IN /\ Len(elements) = 4
          /\ last.kind.tag = "Num"
          /\ last.position = "Value"
          /\ last.kind.offset + last.kind.len = scan.input_len
          /\ At(input, scan.input_len) = RBRACE

(***************************************************************************)
(* Properties of the block classification.                                 *)
(***************************************************************************)
StructuralBytes == {QUOTE, COLON, COMMA, BSLASH, LBRACE, RBRACE, LBRACKET, RBRACKET}

\* the group of a structural byte
group_of(byte) ==
    CASE byte = COLON -> GROUP_C
      [] byte \in {LBRACE, RBRACE, LBRACKET, RBRACKET} -> GROUP_B
      [] byte = COMMA -> GROUP_N
      [] byte = BSLASH -> GROUP_E
      [] byte = QUOTE -> GROUP_Q
      [] OTHER -> GROUP_U

\* C34: for every byte value the AND of the two nibble lookups is not zero
\* exactly for the eight structural bytes, and then it is the one bit of the
\* byte's group; so the interest index of a block holds every offset of its
\* quote index, as computed and as stored by the load of the block.
C34_NibbleTables ==
    /\ \A k \in 1..Len(input) :
          /\ interest_hi_lo(input[k]) # 0 <=> input[k] \in StructuralBytes
          /\ interest_hi_lo(input[k]) = group_of(input[k])
    /\ index_quote_of(input, 0) \subseteq index_interest_of(input, 0)
    /\ pc = "block" => scan.simd.quote \subseteq scan.simd.interest

\* a block that starts with `|`, which shares its low nibble with `,` and
\* `\` and its high nibble with `{` and `}`, has been loaded: its first byte
\* is in neither index, the quote after it is in both
C34_Witness ==
    /\ pc = "block"
    /\ input[1] = 124
    /\ input[2] = QUOTE
    /\ interest_hi_lo(124) = 0
    /\ 0 \notin scan.simd.interest
    /\ 1 \in scan.simd.quote
    /\ 1 \in scan.simd.interest

(***************************************************************************)
(* Properties of the copies of the unescaper.                              *)
(***************************************************************************)
\* this step calls flush with flush_to = k: the handler runs on a backslash
\* at k with the escape bit clear, or unescape_end runs with k the input
\* length
Flushes(k) ==
    \/ /\ pc = "unescape" /\ pc' = "unescape"
       /\ unescape' # unescape
       /\ k = unescape.scan.input_offset
       /\ InBounds(unescape.input, k)
       /\ At(unescape.input, k) = BSLASH
       /\ ~unescape.scan.escape
    \/ /\ pc = "unescape_block" /\ escapes # {}
       /\ unescape' # unescape
       /\ k = unescape.scan.input_offset + trailing_zeros(escapes)
       /\ ~unescape.scan.escape
    \/ /\ pc = "unescape" /\ pc' = "unescaped"
       /\ k = Len(unescape.input)

\* C35: on a trusted string every flush is called with start <= flush_to <=
\* input length, and the bytes already in the output plus the bytes it is
\* about to copy are at most the input length, the capacity of the output;
\* the output never holds more bytes than that.
C35_FlushWithinBuffers ==
    [][/\ \A k \in 0..Len(unescape.input) :
             Flushes(k) =>
                /\ unescape.scan.start <= k
                /\ k <= Len(unescape.input)
                /\ Len(unescape.buf) + (k - unescape.scan.start) <= Len(unescape.input)
                /\ k > unescape.scan.start =>
                      SubSeq(unescape'.buf, 1, Len(unescape.buf) + (k - unescape.scan.start))
                         = unescape.buf \o SubSeq(unescape.input, unescape.scan.start + 1, k)
       /\ Len(unescape'.buf) <= Len(unescape'.input)
       /\ unescape'.fault # "oob_copy"
      ]_vars

\* the vector path on 壁 followed by U+00E9: the escape gave three bytes
\* and the last flush copied the two bytes after it
C35_Witness ==
    /\ pc = "unescaped"
    /\ unescape_vectorized(unescape.input, avx2)
    /\ unescape.input = CodeEscape(53, 56, 99, 49) \o <<195, 169>>
    /\ unescape.buf = <<229, 163, 129, 195, 169>>
    /\ unescape.scan.start = Len(unescape.input)

(***************************************************************************)
(* Properties of the decoding of `\u` escapes.                             *)
(***************************************************************************)
\* the four bytes after the `\u` at k, when the input has them
DigitsAt(bytes, k) == SubSeq(bytes, k + 3, k + 6)

\* the code unit the handler of the backslash at k decodes, or -1 when it
\* decodes none: the backslash is followed by `u` and four bytes that
\* u16::from_str_radix takes
DecodedAt(bytes, k) ==
    IF k + 5 < Len(bytes) /\ At(bytes, k + 1) = 117 /\ from_utf8(DigitsAt(bytes, k))
    THEN from_str_radix_16(DigitsAt(bytes, k))
    ELSE -1

\* the next step handles an unescaped backslash
HandlesEscape(k) ==
    /\ AtEscape(k)
    /\ ~unescape.scan.escape
    /\ unescape' # unescape

\* what the step appends to the output after the bytes that waited before
\* the backslash at k
EmittedAt(k) ==
    SubSeq(unescape'.buf, Len(unescape.buf) + (k - unescape.scan.start) + 1,
           Len(unescape'.buf))

\* C36: when a code unit H is pending and the escape decodes a code unit L,
\* a scalar is put in the output only if H is a high surrogate
\* (D800..DBFF) and L a low surrogate (DC00..DFFF); for every other pair
\* the escape puts nothing in the output.
C36_OnlySurrogatePairsEmit ==
    [][\A k \in 0..Len(unescape.input) :
          (/\ HandlesEscape(k)
           /\ unescape.scan.first_surrogate # NoSurrogate
           /\ DecodedAt(unescape.input, k) >= 0) =>
             (EmittedAt(k) # <<>> =>
                 /\ unescape.scan.first_surrogate \in 55296..56319
                 /\ DecodedAt(unescape.input, k) \in 56320..57343)
      ]_vars

\* the next step handles an unescaped backslash that is followed by `u`
HandlesU(k) ==
    /\ HandlesEscape(k)
    /\ k + 1 < Len(unescape.input)
    /\ At(unescape.input, k + 1) = 117

\* the four bytes after the `\u` at k are there and are all hexadecimal
\* digits
FourHexDigits(bytes, k) ==
    /\ k + 5 < Len(bytes)
    /\ \A d \in 2..5 : HexValue(At(bytes, k + d)) >= 0

\* the step took the bytes after `\u` as a code unit: it put a char in the
\* output, kept or took a surrogate half, or moved the start of the text to
\* copy past the four bytes
TakenAsCodeUnit(k) ==
    \/ EmittedAt(k) # <<>>
    \/ unescape'.scan.first_surrogate # unescape.scan.first_surrogate
    \/ unescape'.scan.start # k + 2

\* C37: the bytes after `\u` are decoded as a code unit only if four of
\* them are there and all are hexadecimal digits (0-9, a-f, A-F); otherwise
\* the escape puts nothing in the output, `\u` is dropped and the text to
\* copy starts with the byte after the `u`.
C37_OnlyHexDigitsDecoded ==
    [][\A k \in 0..Len(unescape.input) :
          HandlesU(k) =>
             /\ TakenAsCodeUnit(k) => FourHexDigits(unescape.input, k)
             /\ ~FourHexDigits(unescape.input, k) => EscapeAtGives(k, <<>>, 2)
      ]_vars

\* C38: on every trusted string the vector path (the block loop over the
\* escape masks, then the byte loop on what is left) returns what the byte
\* loop alone returns, and ends in the same scan state, wherever the
\* backslashes stand in their blocks.
C38_VectorMatchesScalar ==
    (pc = "unescaped" /\ Trusted(unescape.input)) =>
        LET scalar == unescape_fallback_state(unescape.input) IN
        /\ unescape.buf = scalar.buf
        /\ unescape.scan = scalar.scan
        /\ unescape.fault = scalar.fault

\* the vector path has unescaped a string whose first block ends with the
\* first backslash of a `\\` pair and whose second block begins with the
\* other one
C38_Witness ==
    /\ pc = "unescaped"
    /\ unescape_vectorized(unescape.input, avx2)
    /\ unescape.input = <<CH_a, BSLASH, BSLASH, QUOTE>>
    /\ unescape.buf = <<CH_a, BSLASH, QUOTE>>

(***************************************************************************)
(* Properties of the 'aligned and 'block loops of the vector scan.         *)
(***************************************************************************)
\* the 'block loop is about to select a position while the Quote index is
\* the active one
SelectsInString ==
    /\ pc = "block"
    /\ scan.simd.interest # {}
    /\ scan.simd.active_index = "Quote"

\* the states of a scan that is under way
Scanning == pc \in {"fallback", "prefix", "aligned", "block", "tail"}

\* C39: when the 'block loop selects a position with the Quote index active,
\* the quote index is not empty and its lowest bit is the lowest bit of the
\* interest index, so the block offset is below the block size and the byte
\* dispatched is a quote or a backslash, never another structural byte of
\* the string; while a scan is under way the Quote index is the active one
\* exactly when the active primitive is a String.
C39_QuoteIndexInsideStrings ==
    /\ SelectsInString =>
          LET block_offset == trailing_zeros(scan.simd.quote) IN
          /\ scan.simd.quote # {}
          /\ block_offset = trailing_zeros(scan.simd.interest)
          /\ block_offset < BLOCK_SIZE
          /\ InBounds(input, scan.input_offset + block_offset)
          /\ At(input, scan.input_offset + block_offset) \in {QUOTE, BSLASH}
    /\ Scanning =>
          (scan.simd.active_index = "Quote"
              <=> scan.stack.active_map_arr.active_primitive.kind = "Str")

\* the block loop is inside a string whose block begins with a structural
\* byte of the text and goes on with the closing quote: the quote is what it
\* selects
C39_Witness ==
    /\ SelectsInString
    /\ At(input, scan.input_offset) \in {COMMA, COLON, LBRACE, RBRACE, LBRACKET, RBRACKET}
    /\ scan.simd.interest = {1}
    /\ scan.simd.quote = {1}
    /\ At(input, scan.input_offset + 1) = QUOTE
    /\ ~scan.escape

\* the address of the byte at the cursor is a multiple of the block size
BlockAligned(s) == (align + s.input_offset) % BLOCK_SIZE = 0

\* C40: in the vector scan the byte loop stops with the cursor at its
\* read_to bound, in the prefix and in the tail, and each of its steps
\* moves the cursor by one byte; after the prefix the cursor is block
\* aligned; every block loaded is aligned and lies inside the scan bounds
\* (cursor + block size <= end); the cursor moves by exactly one block from
\* one load to the next, and not at all inside the 'block loop; fewer than
\* a block of bytes are left when the tail begins.
C40_CursorAndBlocks ==
    [][/\ (pc \in {"prefix", "tail"} /\ pc' \in {"prefix", "tail"} /\ scan' # scan) =>
             /\ scan'.input_offset = scan.input_offset + 1
             /\ scan'.input_offset <= read_to
       /\ (pc = "prefix" /\ pc' = "aligned") =>
             /\ scan.input_offset = read_to
             /\ BlockAligned(scan)
             /\ scan' = scan
       /\ (pc = "tail" /\ pc' = "done") =>
             /\ scan.input_offset = read_to
             /\ read_to = scan.input_len
       /\ (pc = "aligned" /\ pc' \in {"aligned", "block"}) =>
             /\ BlockAligned(scan)
             /\ scan.input_offset + BLOCK_SIZE <= scan.input_len
             /\ fault' = fault
             /\ scan'.input_offset =
                   IF pc' = "block" THEN scan.input_offset
                   ELSE scan.input_offset + BLOCK_SIZE
       /\ (pc = "block" /\ pc' = "block") => scan'.input_offset = scan.input_offset
       /\ (pc = "block" /\ pc' = "aligned") =>
             scan'.input_offset = scan.input_offset + BLOCK_SIZE
       /\ (pc = "aligned" /\ pc' = "tail") =>
             /\ scan.input_offset <= scan.input_len
             /\ scan.input_len - scan.input_offset < BLOCK_SIZE
             /\ read_to' = scan.input_len
      ]_vars

\* the vector scan of an input that does not begin at a block boundary has
\* loaded its blocks and begins its tail with one byte left
C40_Witness ==
    /\ pc = "tail"
    /\ align = 1
    /\ last_block + BLOCK_SIZE = scan.input_offset
    /\ scan.input_len - scan.input_offset = 1
    /\ read_to = scan.input_len

=============================================================================
